---- MODULE Spec2Model ----
(***************************************************************************)
(* A model of the VB-like scripting engine of VB6.tiny.clone:              *)
(*   src/interpreter.py  VBInterpreter (block executor, expressions)       *)
(*   src/runtime.py      VBJsonRuntime (path accessor), VBContext          *)
(* Text is modelled character by character: a Python str is a sequence of  *)
(* one-character strings, so that the string tests and the regular         *)
(* expressions of the source are computed as the source computes them.     *)
(***************************************************************************)
EXTENDS Integers, Sequences, FiniteSets, TLC

(***************************************************************************)
(* Text helpers (Python str operations used by the source).                *)
(***************************************************************************)

\* the sequence f, a function on 1..n, as a tuple
Tup(f) == IF Len(f) = 0 THEN <<>> ELSE SubSeq(f, 1, Len(f))

\* A TLA+ string literal as a sequence of one-character strings.
Chars(s) == Tup([k \in 1..Len(s) |-> SubSeq(s, k, k)])

\* the slice of s from position a to position b (1-based, inclusive), clipped
\* to s as a Python slice is
Mid(s, a, b) ==
    LET lo == IF a < 1 THEN 1 ELSE a
        hi == IF b > Len(s) THEN Len(s) ELSE b
    IN  IF lo > hi THEN <<>> ELSE SubSeq(s, lo, hi)

LowerLetters == <<"a", "b", "c", "d", "e", "f", "g", "h", "i", "j", "k", "l", "m",
                  "n", "o", "p", "q", "r", "s", "t", "u", "v", "w", "x", "y", "z">>
UpperLetters == <<"A", "B", "C", "D", "E", "F", "G", "H", "I", "J", "K", "L", "M",
                  "N", "O", "P", "Q", "R", "S", "T", "U", "V", "W", "X", "Y", "Z">>
DigitChars == <<"0", "1", "2", "3", "4", "5", "6", "7", "8", "9">>

Range(s) == {s[k] : k \in 1..Len(s)}

LowerSet == {"a", "b", "c", "d", "e", "f", "g", "h", "i", "j", "k", "l", "m",
             "n", "o", "p", "q", "r", "s", "t", "u", "v", "w", "x", "y", "z"}
UpperSet == {"A", "B", "C", "D", "E", "F", "G", "H", "I", "J", "K", "L", "M",
             "N", "O", "P", "Q", "R", "S", "T", "U", "V", "W", "X", "Y", "Z"}
DigitSet == {"0", "1", "2", "3", "4", "5", "6", "7", "8", "9"}

IsDigit(c) == c \in DigitSet
\* \w of the regular expressions: letters, digits and the underscore
IsWordChar(c) == c \in LowerSet \/ c \in UpperSet \/ c \in DigitSet \/ c = "_"
\* \s, and what str.strip() removes
IsSpace(c) == c \in {" ", "\t", "\n"}

\* str.upper() on one character
UpperChar(c) ==
    IF c \in LowerSet
    THEN UpperLetters[CHOOSE k \in 1..26 : LowerLetters[k] = c]
    ELSE c

\* str.upper()
Upper(s) == Tup([k \in 1..Len(s) |-> UpperChar(s[k])])

\* str.lstrip()
LStrip(s) ==
    IF \A k \in 1..Len(s) : IsSpace(s[k]) THEN <<>>
    ELSE Mid(s, CHOOSE k \in 1..Len(s) : ~IsSpace(s[k]) /\ \A j \in 1..(k-1) : IsSpace(s[j]), Len(s))

\* str.rstrip()
RStrip(s) ==
    IF \A k \in 1..Len(s) : IsSpace(s[k]) THEN <<>>
    ELSE Mid(s, 1, CHOOSE k \in 1..Len(s) : ~IsSpace(s[k]) /\ \A j \in (k+1)..Len(s) : IsSpace(s[j]))

\* str.strip()
Strip(s) == LStrip(RStrip(s))

\* str.startswith(p)
StartsWith(s, p) == Len(s) >= Len(p) /\ Mid(s, 1, Len(p)) = p

\* str.endswith(p)
EndsWith(s, p) == Len(s) >= Len(p) /\ Mid(s, Len(s) - Len(p) + 1, Len(s)) = p

\* the 1-based positions at which p occurs in s
Occurrences(s, p) == {k \in 1..(Len(s) - Len(p) + 1) : Mid(s, k, k + Len(p) - 1) = p}

\* p in s
Contains(s, p) == Occurrences(s, p) # {}

SetMin(S) == CHOOSE x \in S : \A y \in S : x <= y
SetMax(S) == CHOOSE x \in S : \A y \in S : x >= y

\* str.find(p) as a 1-based position, 0 when p does not occur
Find(s, p) == IF Contains(s, p) THEN SetMin(Occurrences(s, p)) ELSE 0

\* str.rfind(p) as a 1-based position, 0 when p does not occur
RFind(s, p) == IF Contains(s, p) THEN SetMax(Occurrences(s, p)) ELSE 0

\* the first position of a character of the set cs in s, 0 when there is none
FindAny(s, cs) ==
    IF \E k \in 1..Len(s) : s[k] \in cs
    THEN SetMin({k \in 1..Len(s) : s[k] \in cs})
    ELSE 0

\* s[a:] with a 0-based Python start index
From(s, a) == Mid(s, a + 1, Len(s))

\* str.split(c) for a one-character separator c
RECURSIVE SplitOn(_, _)
SplitOn(s, c) ==
    LET k == FindAny(s, {c})
    IN  IF k = 0 THEN <<s>>
        ELSE <<Mid(s, 1, k - 1)>> \o SplitOn(Mid(s, k + 1, Len(s)), c)

\* str.split(c, 1)
SplitOnce(s, c) ==
    LET k == FindAny(s, {c})
    IN  IF k = 0 THEN <<s>> ELSE <<Mid(s, 1, k - 1), Mid(s, k + 1, Len(s))>>

\* "".join(parts)
RECURSIVE Join(_)
Join(parts) == IF parts = <<>> THEN <<>> ELSE Head(parts) \o Join(Tail(parts))

\* str.replace('""', '"'): left to right, non-overlapping
RECURSIVE UnDouble(_)
UnDouble(s) ==
    IF Len(s) < 2 THEN s
    ELSE IF s[1] = "\"" /\ s[2] = "\"" THEN <<"\"">> \o UnDouble(Mid(s, 3, Len(s)))
    ELSE <<s[1]>> \o UnDouble(Tail(s))

(***************************************************************************)
(* Numbers.  A Python int is an integer; a Python float is modelled as the *)
(* exact rational n/d in lowest terms with d > 0.  The model's numeric     *)
(* literals are integers and halves, on which the sums, differences and    *)
(* products of binary64 are exact; a quotient that binary64 rounds stands  *)
(* here as the exact quotient, which is an integer exactly when the        *)
(* rounded one is.                                                         *)
(***************************************************************************)

Abs(n) == IF n < 0 THEN -n ELSE n

RECURSIVE Gcd(_, _)
Gcd(a, b) == IF b = 0 THEN a ELSE Gcd(b, a % b)

\* the rational n/d (d # 0) in lowest terms with a positive denominator
Rat(n, d) ==
    LET g == Gcd(Abs(n), Abs(d))
        sg == IF d < 0 THEN -1 ELSE 1
    IN  [n |-> (sg * n) \div g, d |-> (sg * d) \div g]

\* the value of one decimal digit character
DigitVal(c) == (CHOOSE k \in 1..10 : DigitChars[k] = c) - 1

\* int(s) for a string of decimal digits
RECURSIVE DigitsVal(_)
DigitsVal(s) == IF s = <<>> THEN 0 ELSE 10 * DigitsVal(Mid(s, 1, Len(s) - 1)) + DigitVal(s[Len(s)])

RECURSIVE Pow10(_)
Pow10(k) == IF k = 0 THEN 1 ELSE 10 * Pow10(k - 1)

AllDigits(s) == s # <<>> /\ \A k \in 1..Len(s) : IsDigit(s[k])

\* re.fullmatch(r"\d+(\.\d+)?", s)
IsNumericLiteral(s) ==
    LET k == FindAny(s, {"."})
    IN  IF k = 0 THEN AllDigits(s)
        ELSE AllDigits(Mid(s, 1, k - 1)) /\ AllDigits(Mid(s, k + 1, Len(s)))

\* the rational denoted by digits "." digits
DecimalVal(s) ==
    LET k == FindAny(s, {"."})
        ip == Mid(s, 1, k - 1)
        fp == Mid(s, k + 1, Len(s))
    IN  Rat(DigitsVal(ip) * Pow10(Len(fp)) + DigitsVal(fp), Pow10(Len(fp)))

\* the decimal digits of a natural number: str(n) for n >= 0
RECURSIVE NatStr(_)
NatStr(n) == IF n < 10 THEN <<DigitChars[n + 1]>> ELSE NatStr(n \div 10) \o <<DigitChars[(n % 10) + 1]>>

\* str(n) for a Python int
IntStr(n) == IF n < 0 THEN <<"-">> \o NatStr(-n) ELSE NatStr(n)

\* the digits of the fraction r/d (0 <= r < d) while the expansion lasts, at
\* most k digits
RECURSIVE FracDigits(_, _, _)
FracDigits(r, d, k) ==
    IF r = 0 \/ k = 0 THEN <<>>
    ELSE <<DigitChars[((10 * r) \div d) + 1]>> \o FracDigits((10 * r) % d, d, k - 1)

\* str(x) for a Python float n/d: "3.5", "4.0", "-0.5" (the expansion is cut
\* after 16 fraction digits; the model's floats have finite expansions)
FloatStr(n, d) ==
    LET a == Abs(n)
        fd == FracDigits(a % d, d, 16)
    IN  (IF n < 0 THEN <<"-">> ELSE <<>>) \o NatStr(a \div d) \o <<".">>
            \o (IF fd = <<>> THEN <<"0">> ELSE fd)

(***************************************************************************)
(* Values: the Python values the engine handles.                           *)
(***************************************************************************)

None == [t |-> "none"]
IntV(i) == [t |-> "int", i |-> i]
FloatV(n, d) == [t |-> "float", n |-> Rat(n, d).n, d |-> Rat(n, d).d]
StrV(s) == [t |-> "str", s |-> s]
\* a reference to a dict or list of the heap
RefV(id) == [t |-> "ref", id |-> id]
\* a Python bool (json.loads makes them)
BoolV(b) == [t |-> "bool", b |-> b]
\* a bound method of a Python value: the result of getattr(obj, name) for a method
MethodV(self, name) == [t |-> "method", self |-> self, name |-> name]

IsNone(v) == v.t = "none"
IsNum(v) == v.t \in {"int", "float"}

(***************************************************************************)
(* The heap of structured nodes.  A Python dict or list is a node of the   *)
(* heap, named by its position; values refer to it with RefV, so that two  *)
(* names bound to the same tree see each other's writes.  A dict is the    *)
(* sequence of its <<key, value>> pairs in insertion order.                *)
(***************************************************************************)

DictNode(items) == [k |-> "dict", items |-> items]
ListNode(elems) == [k |-> "list", elems |-> elems]

\* isinstance(v, dict) / isinstance(v, list)
IsDict(h, v) == v.t = "ref" /\ h[v.id].k = "dict"
IsList(h, v) == v.t = "ref" /\ h[v.id].k = "list"

\* key in d
DictHas(node, key) == \E k \in 1..Len(node.items) : node.items[k][1] = key

\* d[key], for a key of d
DictGet(node, key) == node.items[CHOOSE k \in 1..Len(node.items) : node.items[k][1] = key][2]

\* d[key] = value as an insertion that does not look for the key: a faulty
\* variant, under which a key set twice keeps its first value
DictSetAppend(node, key, value) == DictNode(Append(node.items, <<key, value>>))

\* d[key] = value
DictSet(node, key, value) ==
    IF DictHas(node, key)
    THEN DictNode(Tup([k \in 1..Len(node.items) |->
                      IF node.items[k][1] = key THEN <<key, value>> ELSE node.items[k]]))
    ELSE DictNode(Append(node.items, <<key, value>>))

\* a Python index i into a sequence of length n, as a 1-based position (0: IndexError)
PyIndex(i, n) ==
    IF i >= 0 /\ i < n THEN i + 1
    ELSE IF i < 0 /\ -i <= n THEN n + i + 1
    ELSE 0

(***************************************************************************)
(* VBJsonRuntime: the path accessor.                                       *)
(***************************************************************************)

KeyTok(s) == [k |-> "key", s |-> s]
IdxTok(i) == [k |-> "idx", i |-> i]

\* int(s) of Python for the text between brackets: optional blanks and sign,
\* then decimal digits; ok = FALSE is ValueError
PyIntSigned(u, body) ==
    IF AllDigits(body)
    THEN [ok |-> TRUE, i |-> IF u[1] = "-" THEN -DigitsVal(body) ELSE DigitsVal(body)]
    ELSE [ok |-> FALSE, i |-> 0]

PyIntStripped(u) ==
    PyIntSigned(u, IF u # <<>> /\ u[1] \in {"-", "+"} THEN Tail(u) ELSE u)

PyInt(s) == PyIntStripped(Strip(s))

\* _split_path: the loop from position i (0-based) with the buffer buf and the
\* tokens found so far; exc = "ValueError" when int(num) fails
RECURSIVE SplitPathFrom(_, _, _, _)

\* the branch ch == "[" once int(num) is known: n is its result, next the
\* position after the bracketed text
SplitPathIndex(path, next, flushed, n) ==
    IF ~n.ok THEN [tokens |-> flushed, exc |-> "ValueError"]
    ELSE SplitPathFrom(path, next, <<>>, Append(flushed, IdxTok(n.i)))

\* the branch ch == "[": num is the text up to the next "]"
SplitPathBracket(path, i, flushed, num) ==
    SplitPathIndex(path, i + 1 + Len(num) + 1, flushed, PyInt(num))

\* path[i+1 : close], all of the rest when there is no "]"
BracketText(rest) ==
    IF FindAny(rest, {"]"}) = 0 THEN rest ELSE Mid(rest, 1, FindAny(rest, {"]"}) - 1)

SplitPathFrom(path, i, buf, tokens) ==
    IF i >= Len(path)
    THEN [tokens |-> IF buf # <<>> THEN Append(tokens, KeyTok(buf)) ELSE tokens, exc |-> ""]
    ELSE LET ch == path[i + 1]
             flushed == IF buf # <<>> THEN Append(tokens, KeyTok(buf)) ELSE tokens
         IN  IF ch = "." THEN SplitPathFrom(path, i + 1, <<>>, flushed)
             ELSE IF ch = "["
             THEN SplitPathBracket(path, i, flushed, BracketText(From(path, i + 1)))
             ELSE SplitPathFrom(path, i + 1, Append(buf, ch), tokens)

\* _split_path(path)
SplitPath(path) == SplitPathFrom(path, 0, <<>>, <<>>)

\* cur[p] of Python: the value, or the exception it raises
Subscript(h, cur, p) ==
    IF IsDict(h, cur)
    THEN IF p.k = "key" /\ DictHas(h[cur.id], p.s)
         THEN [v |-> DictGet(h[cur.id], p.s), exc |-> ""]
         ELSE [v |-> None, exc |-> "KeyError"]
    ELSE IF IsList(h, cur)
    THEN IF p.k # "idx" THEN [v |-> None, exc |-> "TypeError"]
         ELSE IF PyIndex(p.i, Len(h[cur.id].elems)) = 0 THEN [v |-> None, exc |-> "IndexError"]
         ELSE [v |-> h[cur.id].elems[PyIndex(p.i, Len(h[cur.id].elems))], exc |-> ""]
    ELSE IF cur.t = "str"
    THEN IF p.k # "idx" THEN [v |-> None, exc |-> "TypeError"]
         ELSE IF PyIndex(p.i, Len(cur.s)) = 0 THEN [v |-> None, exc |-> "IndexError"]
         ELSE [v |-> StrV(<<cur.s[PyIndex(p.i, Len(cur.s))]>>), exc |-> ""]
    ELSE [v |-> None, exc |-> "TypeError"]

\* json_get: the walk over the tokens
RECURSIVE JsonGetWalk(_, _, _)
JsonGetWalk(h, cur, parts) ==
    IF parts = <<>> THEN [v |-> cur, exc |-> ""]
    ELSE LET r == Subscript(h, cur, Head(parts))
         IN  IF r.exc # "" THEN r ELSE JsonGetWalk(h, r.v, Tail(parts))

\* json_get(obj, path): [v, exc]
json_get_parts(h, obj, sp) ==
    IF sp.exc # "" THEN [v |-> None, exc |-> sp.exc]
    ELSE JsonGetWalk(h, obj, sp.tokens)

json_get(h, obj, path) == json_get_parts(h, obj, SplitPath(path))

\* json_set: the last token
JsonSetLast(h, cur, last, value) ==
    IF last.k = "idx"
    THEN IF ~IsList(h, cur) THEN [h |-> h, exc |-> "TypeError"]
         ELSE IF PyIndex(last.i, Len(h[cur.id].elems)) = 0 THEN [h |-> h, exc |-> "IndexError"]
         ELSE [h |-> [h EXCEPT ![cur.id] =
                        ListNode([@.elems EXCEPT ![PyIndex(last.i, Len(h[cur.id].elems))] = value])],
               exc |-> ""]
    ELSE IF ~IsDict(h, cur) THEN [h |-> h, exc |-> "TypeError"]
         ELSE [h |-> [h EXCEPT ![cur.id] = DictSet(@, last.s, value)], exc |-> ""]

\* json_set: the loop over parts[:-1], then the last token
RECURSIVE JsonSetWalk(_, _, _, _)
JsonSetWalk(h, cur, parts, value) ==
    IF Len(parts) = 1 THEN JsonSetLast(h, cur, parts[1], value)
    ELSE LET p == Head(parts)
         IN  IF p.k = "idx"
             THEN IF ~IsList(h, cur) THEN [h |-> h, exc |-> "TypeError"]
                  ELSE IF PyIndex(p.i, Len(h[cur.id].elems)) = 0 THEN [h |-> h, exc |-> "IndexError"]
                  ELSE JsonSetWalk(h, h[cur.id].elems[PyIndex(p.i, Len(h[cur.id].elems))],
                                   Tail(parts), value)
             ELSE IF ~IsDict(h, cur) THEN [h |-> h, exc |-> "TypeError"]
                  ELSE IF ~DictHas(h[cur.id], p.s) \/ IsNone(DictGet(h[cur.id], p.s))
                  THEN LET id == Len(h) + 1
                           h2 == Append([h EXCEPT ![cur.id] = DictSet(@, p.s, RefV(id))],
                                        DictNode(<<>>))
                       IN  JsonSetWalk(h2, RefV(id), Tail(parts), value)
                  ELSE JsonSetWalk(h, DictGet(h[cur.id], p.s), Tail(parts), value)

\* json_set(obj, path, value): the heap after the call and the exception raised
json_set_parts(h, obj, sp, value) ==
    IF sp.exc # "" THEN [h |-> h, exc |-> sp.exc]
    ELSE IF ~(IsDict(h, obj) \/ IsList(h, obj)) THEN [h |-> h, exc |-> "TypeError"]
    ELSE IF sp.tokens = <<>> THEN [h |-> h, exc |-> "IndexError"]
    ELSE JsonSetWalk(h, obj, sp.tokens, value)

json_set(h, obj, path, value) == json_set_parts(h, obj, SplitPath(path), value)

(***************************************************************************)
(* VBJsonRuntime.SCHEMAS and json_new.                                     *)
(***************************************************************************)

\* the nodes of the heap that hold the schema templates when the module
\* runtime.py has been imported: SCHEMAS["Root"] (as overridden), its ledger
\* and meta, the five empty lists of the ledger, and SCHEMAS["Customer"]
SchemaHeap ==
    << DictNode(<< <<Chars("ledger"), RefV(2)>>, <<Chars("meta"), RefV(3)>> >>),
       DictNode(<< <<Chars("accounts"), RefV(4)>>, <<Chars("assetTypes"), RefV(5)>>,
                   <<Chars("batches"), RefV(6)>>, <<Chars("journals"), RefV(7)>>,
                   <<Chars("postings"), RefV(8)>>, <<Chars("postingsText"), StrV(<<>>)>> >>),
       DictNode(<< <<Chars("nextAccountId"), IntV(1)>>, <<Chars("nextAssetTypeId"), IntV(1)>>,
                   <<Chars("nextBatchId"), IntV(1)>>, <<Chars("nextJournalId"), IntV(1)>>,
                   <<Chars("nextPostingSeq"), IntV(1)>> >>),
       ListNode(<<>>), ListNode(<<>>), ListNode(<<>>), ListNode(<<>>), ListNode(<<>>),
       DictNode(<< <<Chars("name"), StrV(<<>>)>>, <<Chars("age"), IntV(0)>> >>) >>

\* SCHEMAS: schema name -> template
SCHEMAS == << <<Chars("Root"), RefV(1)>>, <<Chars("Customer"), RefV(9)>> >>

\* copy.deepcopy: the copy of the value v, with the memo of nodes copied so far
\* (memo is a sequence of <<old id, new id>>)
RECURSIVE CopyValue(_, _, _), CopySeq(_, _, _, _)

\* the copy of the node filled in once its parts r.vs are copied
CopyNode(node, id, r) ==
    [h |-> [r.h EXCEPT ![id] =
               IF node.k = "dict"
               THEN DictNode(Tup([k \in 1..Len(node.items) |-> <<node.items[k][1], r.vs[k]>>]))
               ELSE ListNode(r.vs)],
     memo |-> r.memo, v |-> RefV(id)]

CopyValue(h, memo, v) ==
    IF v.t # "ref" THEN [h |-> h, memo |-> memo, v |-> v]
    ELSE IF \E k \in 1..Len(memo) : memo[k][1] = v.id
    THEN [h |-> h, memo |-> memo,
          v |-> RefV(memo[CHOOSE k \in 1..Len(memo) : memo[k][1] = v.id][2])]
    ELSE \* the new node is allocated first, filled when its parts are copied
         CopyNode(h[v.id], Len(h) + 1,
                  CopySeq(Append(h, IF h[v.id].k = "dict" THEN DictNode(<<>>) ELSE ListNode(<<>>)),
                          Append(memo, <<v.id, Len(h) + 1>>),
                          IF h[v.id].k = "dict"
                          THEN Tup([k \in 1..Len(h[v.id].items) |-> h[v.id].items[k][2]])
                          ELSE h[v.id].elems,
                          <<>>))
CopySeqNext(vals, done, r) == CopySeq(r.h, r.memo, Tail(vals), Append(done, r.v))
CopySeq(h, memo, vals, done) ==
    IF vals = <<>> THEN [h |-> h, memo |-> memo, vs |-> done]
    ELSE CopySeqNext(vals, done, CopyValue(h, memo, Head(vals)))

\* json_new returning the template itself instead of a copy of it: a faulty
\* variant, under which every tree of a schema is the same tree
json_new_shared(h, type_name) ==
    IF \E k \in 1..Len(SCHEMAS) : SCHEMAS[k][1] = type_name
    THEN [h |-> h, v |-> SCHEMAS[CHOOSE k \in 1..Len(SCHEMAS) : SCHEMAS[k][1] = type_name][2]]
    ELSE [h |-> Append(h, DictNode(<<>>)), v |-> RefV(Len(h) + 1)]

\* json_new(type_name): the heap after the call and the tree returned
json_new_copy(r) == [h |-> r.h, v |-> r.v]
json_new(h, type_name) ==
    IF \E k \in 1..Len(SCHEMAS) : SCHEMAS[k][1] = type_name
    THEN json_new_copy(CopyValue(h, <<>>,
             SCHEMAS[CHOOSE k \in 1..Len(SCHEMAS) : SCHEMAS[k][1] = type_name][2]))
    ELSE [h |-> Append(h, DictNode(<<>>)), v |-> RefV(Len(h) + 1)]

(***************************************************************************)
(* str(), repr(), json.dumps and json.loads.                               *)
(***************************************************************************)

\* ", ".join(parts)
RECURSIVE JoinComma(_)
JoinComma(parts) ==
    IF parts = <<>> THEN <<>>
    ELSE IF Len(parts) = 1 THEN parts[1]
    ELSE parts[1] \o Chars(", ") \o JoinComma(Tail(parts))

\* s with a backslash before every backslash and every character q
RECURSIVE Escaped(_, _)
Escaped(s, q) ==
    IF s = <<>> THEN <<>>
    ELSE (IF s[1] \in {"\\", q} THEN <<"\\", s[1]>> ELSE <<s[1]>>) \o Escaped(Tail(s), q)

\* repr(s) of a str: single quotes, double quotes when s holds a single quote
\* and no double quote
StrRepr(s) ==
    IF "'" \in Range(s) /\ "\"" \notin Range(s)
    THEN <<"\"">> \o Escaped(s, "\"") \o <<"\"">>
    ELSE <<"'">> \o Escaped(s, "'") \o <<"'">>

\* repr(v); path is the set of containers being printed (a container met again
\* prints as {...} or [...])
RECURSIVE PyRepr(_, _, _)
PyRepr(h, v, path) ==
    CASE v.t = "none" -> Chars("None")
      [] v.t = "bool" -> IF v.b THEN Chars("True") ELSE Chars("False")
      [] v.t = "int" -> IntStr(v.i)
      [] v.t = "float" -> FloatStr(v.n, v.d)
      [] v.t = "str" -> StrRepr(v.s)
      [] v.t = "method" -> Chars("<bound method ") \o v.name \o Chars(">")
      [] v.t = "ref" ->
           LET node == h[v.id]
           IN  IF node.k = "dict"
               THEN IF v.id \in path THEN Chars("{...}")
                    ELSE <<"{">> \o JoinComma(Tup([k \in 1..Len(node.items) |->
                                StrRepr(node.items[k][1]) \o Chars(": ")
                                    \o PyRepr(h, node.items[k][2], path \cup {v.id})])) \o <<"}">>
               ELSE IF node.k = "list"
               THEN IF v.id \in path THEN Chars("[...]")
                    ELSE <<"[">> \o JoinComma(Tup([k \in 1..Len(node.elems) |->
                                PyRepr(h, node.elems[k], path \cup {v.id})])) \o <<"]">>
               ELSE Chars("<gui.VBTextBox object>")

\* str(v)
PyStr(h, v) == IF v.t = "str" THEN v.s ELSE PyRepr(h, v, {})

\* json.dumps(v): [s, exc]; a value json cannot serialize is TypeError, a
\* container inside itself is ValueError
RECURSIVE JsonDumps(_, _, _), JsonDumpsSeq(_, _, _, _)

\* the text of a container once its parts are serialized
JsonDumpsNode(node, r) ==
    IF r.exc # "" THEN [s |-> <<>>, exc |-> r.exc]
    ELSE IF node.k = "dict"
    THEN [s |-> <<"{">> \o JoinComma(Tup([k \in 1..Len(node.items) |->
                    <<"\"">> \o Escaped(node.items[k][1], "\"") \o <<"\"">>
                        \o Chars(": ") \o r.ss[k]])) \o <<"}">>,
          exc |-> ""]
    ELSE [s |-> <<"[">> \o JoinComma(r.ss) \o <<"]">>, exc |-> ""]

JsonDumps(h, v, path) ==
    CASE v.t = "none" -> [s |-> Chars("null"), exc |-> ""]
      [] v.t = "bool" -> [s |-> IF v.b THEN Chars("true") ELSE Chars("false"), exc |-> ""]
      [] v.t = "int" -> [s |-> IntStr(v.i), exc |-> ""]
      [] v.t = "float" -> [s |-> FloatStr(v.n, v.d), exc |-> ""]
      [] v.t = "str" -> [s |-> <<"\"">> \o Escaped(v.s, "\"") \o <<"\"">>, exc |-> ""]
      [] v.t = "method" -> [s |-> <<>>, exc |-> "TypeError"]
      [] v.t = "ref" ->
           IF h[v.id].k \notin {"dict", "list"} THEN [s |-> <<>>, exc |-> "TypeError"]
           ELSE IF v.id \in path THEN [s |-> <<>>, exc |-> "ValueError"]
           ELSE JsonDumpsNode(h[v.id],
                    JsonDumpsSeq(h, IF h[v.id].k = "dict"
                                    THEN Tup([k \in 1..Len(h[v.id].items) |-> h[v.id].items[k][2]])
                                    ELSE h[v.id].elems,
                                 path \cup {v.id}, <<>>))
JsonDumpsNext(h, vals, path, done, r) ==
    IF r.exc # "" THEN [ss |-> done, exc |-> r.exc]
    ELSE JsonDumpsSeq(h, Tail(vals), path, Append(done, r.s))
JsonDumpsSeq(h, vals, path, done) ==
    IF vals = <<>> THEN [ss |-> done, exc |-> ""]
    ELSE JsonDumpsNext(h, vals, path, done, JsonDumps(h, Head(vals), path))

\* json_stringify(value)
json_stringify(h, value) == JsonDumps(h, value, {})

\* the first position >= i of s that holds no blank (Len(s) + 1 when there is none)
SkipWs(s, i) ==
    IF \E k \in i..Len(s) : ~IsSpace(s[k])
    THEN SetMin({k \in i..Len(s) : ~IsSpace(s[k])})
    ELSE Len(s) + 1

\* the end of the JSON number that starts at position i of s: -?digits(.digits)?
NumberEnd(s, i) ==
    LET NumCh(c) == IsDigit(c) \/ c \in {"-", "."}
    IN  IF \E k \in i..Len(s) : ~NumCh(s[k])
        THEN SetMin({k \in i..Len(s) : ~NumCh(s[k])}) - 1
        ELSE Len(s)

\* the value of the JSON number text u: [ok, v]
JsonNumberOf(sgn, body, ip) ==
    IF ~IsNumericLiteral(body) \/ (Len(ip) > 1 /\ ip[1] = "0")
    THEN [ok |-> FALSE, v |-> None]
    ELSE IF ip = body THEN [ok |-> TRUE, v |-> IntV(sgn * DigitsVal(body))]
    ELSE [ok |-> TRUE, v |-> FloatV(sgn * DecimalVal(body).n, DecimalVal(body).d)]

JsonNumberBody(sgn, body) ==
    JsonNumberOf(sgn, body,
                 IF FindAny(body, {"."}) = 0 THEN body
                 ELSE Mid(body, 1, FindAny(body, {"."}) - 1))

JsonNumber(u) ==
    IF u # <<>> /\ u[1] = "-" THEN JsonNumberBody(-1, Tail(u)) ELSE JsonNumberBody(1, u)

\* json.loads, the parser proper, on the JSON texts without escape sequences
\* and exponents: the value at position i of s as a tree of literals
\* ([t |-> "tdict", items] and [t |-> "tlist", elems] for the containers), and
\* the position after it; ok = FALSE is json.JSONDecodeError
RECURSIVE ParseVal(_, _), ParseElems(_, _, _), ParseMembers(_, _, _)

\* a string: close is the offset of the closing quote after position j
ParseString(s, j, close) ==
    IF close = 0 \/ "\\" \in Range(Mid(s, j + 1, j + close - 1))
    THEN [ok |-> FALSE, v |-> None, i |-> j]
    ELSE [ok |-> TRUE, v |-> StrV(Mid(s, j + 1, j + close - 1)), i |-> j + close + 1]

\* a number that ends at position e, n its value
ParseNumber(j, e, n) ==
    IF n.ok THEN [ok |-> TRUE, v |-> n.v, i |-> e + 1] ELSE [ok |-> FALSE, v |-> None, i |-> j]

\* a container opened at position j; k is the first position after the blanks
ParseList(s, j, k) ==
    IF k <= Len(s) /\ s[k] = "]"
    THEN [ok |-> TRUE, v |-> [t |-> "tlist", elems |-> <<>>], i |-> k + 1]
    ELSE ParseElems(s, j + 1, <<>>)
ParseDict(s, j, k) ==
    IF k <= Len(s) /\ s[k] = "}"
    THEN [ok |-> TRUE, v |-> [t |-> "tdict", items |-> <<>>], i |-> k + 1]
    ELSE ParseMembers(s, j + 1, <<>>)

\* the value that starts at position j, which holds no blank
ParseAt(s, j) ==
    LET bad == [ok |-> FALSE, v |-> None, i |-> j]
        Word(w) == Mid(s, j, j + Len(w) - 1) = w
    IN  IF j > Len(s) THEN bad
        ELSE IF Word(Chars("null")) THEN [ok |-> TRUE, v |-> None, i |-> j + 4]
        ELSE IF Word(Chars("true")) THEN [ok |-> TRUE, v |-> BoolV(TRUE), i |-> j + 4]
        ELSE IF Word(Chars("false")) THEN [ok |-> TRUE, v |-> BoolV(FALSE), i |-> j + 5]
        ELSE IF s[j] = "\"" THEN ParseString(s, j, FindAny(From(s, j), {"\""}))
        ELSE IF IsDigit(s[j]) \/ s[j] = "-"
        THEN ParseNumber(j, NumberEnd(s, j), JsonNumber(Mid(s, j, NumberEnd(s, j))))
        ELSE IF s[j] = "[" THEN ParseList(s, j, SkipWs(s, j + 1))
        ELSE IF s[j] = "{" THEN ParseDict(s, j, SkipWs(s, j + 1))
        ELSE bad

ParseVal(s, i) == ParseAt(s, SkipWs(s, i))

\* after the element r: k is the first position after the blanks that follow it
ParseElemsNext(s, done, r, k) ==
    IF ~r.ok \/ k > Len(s) THEN [ok |-> FALSE, v |-> None, i |-> k]
    ELSE IF s[k] = "," THEN ParseElems(s, k + 1, Append(done, r.v))
    ELSE IF s[k] = "]"
    THEN [ok |-> TRUE, v |-> [t |-> "tlist", elems |-> Append(done, r.v)], i |-> k + 1]
    ELSE [ok |-> FALSE, v |-> None, i |-> k]
ParseElemsAfter(s, done, r) == ParseElemsNext(s, done, r, SkipWs(s, r.i))
ParseElems(s, i, done) == ParseElemsAfter(s, done, ParseVal(s, i))

\* after the member key: r, and k the first position after the blanks that follow it
ParseMembersNext(s, items, r, k) ==
    IF ~r.ok \/ k > Len(s) THEN [ok |-> FALSE, v |-> None, i |-> k]
    ELSE IF s[k] = "," THEN ParseMembers(s, k + 1, items)
    ELSE IF s[k] = "}"
    THEN [ok |-> TRUE, v |-> [t |-> "tdict", items |-> items], i |-> k + 1]
    ELSE [ok |-> FALSE, v |-> None, i |-> k]
ParseMembersValue(s, done, key, r) ==
    ParseMembersNext(s, Append(done, <<key.v.s, r.v>>), r, SkipWs(s, r.i))
\* after the key: c is the first position after the blanks that follow it
ParseMembersColon(s, done, key, c) ==
    IF ~key.ok \/ key.v.t # "str" \/ c > Len(s) \/ s[c] # ":"
    THEN [ok |-> FALSE, v |-> None, i |-> c]
    ELSE ParseMembersValue(s, done, key, ParseVal(s, c + 1))
ParseMembersKey(s, done, key) == ParseMembersColon(s, done, key, SkipWs(s, key.i))
ParseMembers(s, i, done) == ParseMembersKey(s, done, ParseVal(s, i))

\* the nodes of a parsed tree put on the heap: [h, v]
RECURSIVE AllocTree(_, _), AllocSeq(_, _, _)

\* the dict of the parsed members once their values are on the heap; a key
\* met twice keeps its first place and its last value
RECURSIVE FillDict(_, _, _, _)
FillDict(node, items, vs, k) ==
    IF k > Len(items) THEN node
    ELSE FillDict(DictSet(node, items[k][1], vs[k]), items, vs, k + 1)

AllocNode(tree, r) ==
    [h |-> Append(r.h, IF tree.t = "tdict" THEN FillDict(DictNode(<<>>), tree.items, r.vs, 1)
                       ELSE ListNode(r.vs)),
     v |-> RefV(Len(r.h) + 1)]

AllocTree(h, tree) ==
    IF tree.t \notin {"tdict", "tlist"} THEN [h |-> h, v |-> tree]
    ELSE AllocNode(tree, AllocSeq(h, IF tree.t = "tdict"
                                     THEN Tup([k \in 1..Len(tree.items) |-> tree.items[k][2]])
                                     ELSE tree.elems, <<>>))
AllocSeqNext(vals, done, r) == AllocSeq(r.h, Tail(vals), Append(done, r.v))
AllocSeq(h, vals, done) ==
    IF vals = <<>> THEN [h |-> h, vs |-> done]
    ELSE AllocSeqNext(vals, done, AllocTree(h, Head(vals)))

\* json_parse(text): [h, v, exc]
json_parse_alloc(a) == [h |-> a.h, v |-> a.v, exc |-> ""]
json_parse_value(h, text, r) ==
    IF ~r.ok \/ SkipWs(text, r.i) <= Len(text)
    THEN [h |-> h, v |-> None, exc |-> "JSONDecodeError"]
    ELSE json_parse_alloc(AllocTree(h, r.v))
json_parse(h, text) == json_parse_value(h, text, ParseVal(text, 1))

(***************************************************************************)
(* Host objects and Python attributes.  A host object is a node of the     *)
(* heap: the VBTextBox of gui.py, whose property Text reads and writes the *)
(* text of the widget.                                                     *)
(***************************************************************************)

HostNode(text) == [k |-> "host", text |-> text]

IsHost(h, v) == v.t = "ref" /\ h[v.id].k = "host"

\* a VBListBox whose widget has its currentRowChanged signal connected to the
\* handler of _make_event_handler(handler_name); row is the current row of
\* the widget, -1 when it has none
ListBoxNode(row, handler_name) == [k |-> "listbox", row |-> row, handler_name |-> handler_name]
IsListBox(h, v) == v.t = "ref" /\ h[v.id].k = "listbox"

NameSet(names) == {Chars(names[k]) : k \in 1..Len(names)}

\* the attribute names every Python object has that a \w+ name can spell
ObjectAttrs == NameSet(<<"__class__", "__doc__">>)
DictAttrs == NameSet(<<"clear", "copy", "fromkeys", "get", "items", "keys", "pop",
                       "popitem", "setdefault", "update", "values">>) \cup ObjectAttrs
ListAttrs == NameSet(<<"append", "clear", "copy", "count", "extend", "index", "insert",
                       "pop", "remove", "reverse", "sort">>) \cup ObjectAttrs
StrAttrs == NameSet(<<"upper", "lower", "strip", "split", "join", "replace", "find",
                      "format", "count", "index", "title", "encode">>) \cup ObjectAttrs
NumAttrs == NameSet(<<"real", "imag", "conjugate", "as_integer_ratio">>) \cup ObjectAttrs
HostAttrs == NameSet(<<"Text", "_widget">>) \cup ObjectAttrs

\* hasattr(v, attr)
HasAttr(h, v, attr) ==
    CASE IsDict(h, v) -> attr \in DictAttrs
      [] IsList(h, v) -> attr \in ListAttrs
      [] IsHost(h, v) -> attr \in HostAttrs
      [] v.t = "str" -> attr \in StrAttrs
      [] v.t \in {"int", "float", "bool"} -> attr \in NumAttrs
      [] OTHER -> attr \in ObjectAttrs

\* getattr(v, attr), for an attribute v has
GetAttr(h, v, attr) ==
    IF IsHost(h, v) /\ attr = Chars("Text") THEN StrV(h[v.id].text)
    ELSE IF v.t \in {"int", "float"} /\ attr = Chars("real") THEN v
    ELSE MethodV(v, attr)

\* setattr(v, attr, value), for an attribute v has: [h, exc]; only the
\* property Text of a host object can be set
SetAttr(h, v, attr, value) ==
    IF IsHost(h, v) /\ attr = Chars("Text")
    THEN [h |-> [h EXCEPT ![v.id] = HostNode(PyStr(h, value))], exc |-> ""]
    ELSE IF IsHost(h, v) /\ attr = Chars("_widget") THEN [h |-> h, exc |-> ""]
    ELSE [h |-> h, exc |-> IF attr = Chars("__class__") THEN "TypeError" ELSE "AttributeError"]

\* getattr(v, name)(*args), for an attribute v has: [h, exc].  Of the methods
\* of dict and list, append, clear and reverse are modelled with their effect;
\* a value that is no method is not callable (TypeError)
CallAttr(h, v, name, args) ==
    IF IsList(h, v) /\ name = Chars("append")
    THEN IF Len(args) # 1 THEN [h |-> h, exc |-> "TypeError"]
         ELSE [h |-> [h EXCEPT ![v.id] = ListNode(Append(@.elems, args[1]))], exc |-> ""]
    ELSE IF IsList(h, v) /\ name = Chars("reverse")
    THEN IF Len(args) # 0 THEN [h |-> h, exc |-> "TypeError"]
         ELSE [h |-> [h EXCEPT ![v.id] =
                        ListNode(Tup([k \in 1..Len(@.elems) |-> @.elems[Len(@.elems) + 1 - k]]))],
               exc |-> ""]
    ELSE IF (IsList(h, v) \/ IsDict(h, v)) /\ name = Chars("clear")
    THEN IF Len(args) # 0 THEN [h |-> h, exc |-> "TypeError"]
         ELSE [h |-> [h EXCEPT ![v.id] = IF @.k = "dict" THEN DictNode(<<>>) ELSE ListNode(<<>>)],
               exc |-> ""]
    ELSE IF IsHost(h, v) \/ name \in ObjectAttrs \/ GetAttr(h, v, name).t # "method"
    THEN [h |-> h, exc |-> "TypeError"]
    ELSE [h |-> h, exc |-> ""]

(***************************************************************************)
(* VBContext and the state the engine works on: the Context, the heap and  *)
(* what was printed or shown.                                              *)
(***************************************************************************)

\* A Python dict whose keys are names is the sequence of its <<key, value>>
\* items in insertion order: key in d, d[key] for a key of d, d[key] = value
MapHas(d, key) == \E k \in 1..Len(d) : d[k][1] = key
MapGet(d, key) == d[CHOOSE k \in 1..Len(d) : d[k][1] = key][2]
MapSet(d, key, value) ==
    IF MapHas(d, key)
    THEN [d EXCEPT ![CHOOSE k \in 1..Len(d) : d[k][1] = key] = <<key, value>>]
    ELSE Append(d, <<key, value>>)

\* VBContext.get_var
get_var(c, name) == IF MapHas(c, name) THEN MapGet(c, name) ELSE None

\* VBContext.set_var
set_var(c, name, value) == MapSet(c, name, value)

\* VBContext.has_var
has_var(c, name) == MapHas(c, name)

MkState(c, h, o) == [ctx |-> c, heap |-> h, out |-> o]

\* print(...) of a diagnostic
Diag(st, text) == [st EXCEPT !.out = Append(@, [k |-> "print", text |-> Chars(text)])]

\* self._msgbox(text): the text is shown as str(text)
MsgBox(st, v) == [st EXCEPT !.out = Append(@, [k |-> "msgbox", text |-> PyStr(st.heap, v)])]

\* the result of an evaluation: the state after it, the value, and the
\* exception raised ("" when it returns normally)
Ret(st, v) == [st |-> st, v |-> v, exc |-> ""]
Raise(st, e) == [st |-> st, v |-> None, exc |-> e]

(***************************************************************************)
(* runtime.py: the accounting helpers on the Root tree.                    *)
(***************************************************************************)

\* d.get(key): None when the key is missing
DictGetOr(node, key) == IF DictHas(node, key) THEN DictGet(node, key) ELSE None

\* the keys of the ledger that hold lists, and the counters of meta
LedgerKeys == <<"accounts", "assetTypes", "batches", "journals", "postings">>
MetaKeys == <<"nextAccountId", "nextAssetTypeId", "nextBatchId", "nextJournalId",
              "nextPostingSeq">>

\* _ensure_root_defaults: `if not isinstance(x, dict): x = {}` for the root,
\* and for what root.get(key) returns: [h, v]
EnsureDict(h, x) ==
    IF IsDict(h, x) THEN [h |-> h, v |-> x]
    ELSE [h |-> Append(h, DictNode(<<>>)), v |-> RefV(Len(h) + 1)]

\* for key in (...): if not isinstance(ledger.get(key), list): ledger[key] = []
RECURSIVE EnsureLists(_, _, _)
EnsureLists(h, ledger, keys) ==
    IF keys = <<>> THEN h
    ELSE IF IsList(h, DictGetOr(h[ledger.id], Chars(Head(keys))))
    THEN EnsureLists(h, ledger, Tail(keys))
    ELSE EnsureLists(Append([h EXCEPT ![ledger.id] = DictSet(@, Chars(Head(keys)), RefV(Len(h) + 1))],
                            ListNode(<<>>)),
                     ledger, Tail(keys))

\* if not isinstance(ledger.get("postingsText"), str): ledger["postingsText"] = ""
EnsureText(h, ledger) ==
    IF DictGetOr(h[ledger.id], Chars("postingsText")).t = "str" THEN h
    ELSE [h EXCEPT ![ledger.id] = DictSet(@, Chars("postingsText"), StrV(<<>>))]

\* for key in (...): if key not in meta or not isinstance(meta.get(key), int):
\* meta[key] = 1   (a bool is an int)
RECURSIVE EnsureCounters(_, _, _)
EnsureCounters(h, meta, keys) ==
    IF keys = <<>> THEN h
    ELSE IF DictGetOr(h[meta.id], Chars(Head(keys))).t \in {"int", "bool"}
    THEN EnsureCounters(h, meta, Tail(keys))
    ELSE EnsureCounters([h EXCEPT ![meta.id] = DictSet(@, Chars(Head(keys)), IntV(1))],
                        meta, Tail(keys))

\* root[key] = part, once part is filled to the heap h
RootPart(h, root, key, part) ==
    [h |-> [h EXCEPT ![root.id] = DictSet(@, Chars(key), part)], v |-> root]
EnsureLedgerOf(root, l) ==
    RootPart(EnsureText(EnsureLists(l.h, l.v, LedgerKeys), l.v), root, "ledger", l.v)
EnsureMetaOf(root, m) ==
    RootPart(EnsureCounters(m.h, m.v, MetaKeys), root, "meta", m.v)
EnsureMeta(r) ==
    EnsureMetaOf(r.v, EnsureDict(r.h, DictGetOr(r.h[r.v.id], Chars("meta"))))
EnsureLedger(r) ==
    EnsureLedgerOf(r.v, EnsureDict(r.h, DictGetOr(r.h[r.v.id], Chars("ledger"))))

\* _ensure_root_defaults(root): [h, v], v the root returned
ensure_root_defaults(h, root) == EnsureMeta(EnsureLedger(EnsureDict(h, root)))

\* root["ledger"][key], root["meta"], of a root with its defaults
LedgerList(h, root, key) == DictGet(h[DictGet(h[root.id], Chars("ledger")).id], Chars(key))
MetaOf(h, root) == DictGet(h[root.id], Chars("meta"))

\* the value of a counter as a number
CounterVal(v) == IF v.t = "bool" THEN (IF v.b THEN 1 ELSE 0) ELSE v.i

\* id = meta.get(key, 1)
NextId(h, meta, key) ==
    IF DictHas(h[meta.id], Chars(key)) THEN CounterVal(DictGet(h[meta.id], Chars(key))) ELSE 1

\* meta[key] = id + 1 ; seq.append(obj): the heap after both, obj a new dict
\* with these items
Appended(h, meta, key, id, seq, items) ==
    Append([h EXCEPT ![meta.id] = DictSet(@, Chars(key), IntV(id + 1)),
                     ![seq.id] = ListNode(Append(@.elems, RefV(Len(h) + 1)))],
           DictNode(items))

\* _find_by_code that looks at the first row only: a faulty variant, under
\* which a lookup of a later row creates the row again
find_by_code_head(h, seq, code) ==
    IF /\ Len(h[seq.id].elems) > 0
       /\ IsDict(h, h[seq.id].elems[1])
       /\ DictGetOr(h[h[seq.id].elems[1].id], Chars("code")) = StrV(code)
    THEN h[seq.id].elems[1]
    ELSE None

\* _find_by_code(seq, code): the first dict of seq whose code is code, or None
find_by_code(h, seq, code) ==
    IF \E k \in 1..Len(h[seq.id].elems) :
          /\ IsDict(h, h[seq.id].elems[k])
          /\ DictGetOr(h[h[seq.id].elems[k].id], Chars("code")) = StrV(code)
    THEN h[seq.id].elems[SetMin({k \in 1..Len(h[seq.id].elems) :
                                    /\ IsDict(h, h[seq.id].elems[k])
                                    /\ DictGetOr(h[h[seq.id].elems[k].id], Chars("code")) = StrV(code)})]
    ELSE None

\* get_or_create_asset_type(root, code, description): [h, v], v the row
AssetTypeNew(h, meta, asset_types, code, description, at_id) ==
    [h |-> Appended(h, meta, "nextAssetTypeId", at_id, asset_types,
                    << <<Chars("id"), IntV(at_id)>>, <<Chars("code"), StrV(code)>>,
                       <<Chars("description"),
                         StrV(IF description = <<>> THEN code ELSE description)>> >>),
     v |-> RefV(Len(h) + 1)]
AssetTypeFound(h, root, code, description, existing) ==
    IF ~IsNone(existing) THEN [h |-> h, v |-> existing]
    ELSE AssetTypeNew(h, MetaOf(h, root), LedgerList(h, root, "assetTypes"), code, description,
                      NextId(h, MetaOf(h, root), "nextAssetTypeId"))
AssetTypeCoded(r, code, description) ==
    AssetTypeFound(r.h, r.v, code, description,
                   find_by_code(r.h, LedgerList(r.h, r.v, "assetTypes"), code))
get_or_create_asset_type(h, root, code, description) ==
    AssetTypeCoded(ensure_root_defaults(h, root),
                   IF code = <<>> THEN Chars("CUR") ELSE code, description)

\* get_or_create_account(root, code, asset_type_code=...): [h, v], v the row;
\* name is None and account_type "generic" in every call of the sources
AccountNew(h, meta, accounts, code, at, acc_id) ==
    [h |-> Appended(h, meta, "nextAccountId", acc_id, accounts,
                    << <<Chars("id"), IntV(acc_id)>>, <<Chars("code"), StrV(code)>>,
                       <<Chars("name"), StrV(code)>>, <<Chars("type"), StrV(Chars("generic"))>>,
                       <<Chars("assetTypeId"), DictGet(h[at.id], Chars("id"))>> >>),
     v |-> RefV(Len(h) + 1)]
AccountWith(root, code, t) ==
    AccountNew(t.h, MetaOf(t.h, root), LedgerList(t.h, root, "accounts"), code, t.v,
               NextId(t.h, MetaOf(t.h, root), "nextAccountId"))
AccountFound(h, root, code, asset_type_code, existing) ==
    IF ~IsNone(existing) THEN [h |-> h, v |-> existing]
    ELSE AccountWith(root, code,
                     get_or_create_asset_type(h, root,
                         IF asset_type_code = <<>> THEN Chars("CUR") ELSE asset_type_code, <<>>))
AccountCoded(r, code, asset_type_code) ==
    AccountFound(r.h, r.v, code, asset_type_code,
                 find_by_code(r.h, LedgerList(r.h, r.v, "accounts"), code))
get_or_create_account(h, root, code, asset_type_code) ==
    AccountCoded(ensure_root_defaults(h, root),
                 IF code = <<>> THEN Chars("UNSPEC") ELSE code, asset_type_code)

\* create_journal(root, date, description, period): [h, v, exc], v the id of
\* the journal.  has_period is `period` being given and not empty.  The test
\* of the date reads date[7] of a text of 7 characters or more: IndexError
\* for a text of exactly 7 with "-" at index 4
PeriodOf(date) ==
    IF Len(date) >= 8 /\ date[5] = "-" /\ date[8] = "-" THEN Mid(date, 1, 7) ELSE Chars("0000-00")
JournalNew(h, meta, journals, date, description, period, j_id) ==
    [h |-> Appended(h, meta, "nextJournalId", j_id, journals,
                    << <<Chars("id"), IntV(j_id)>>, <<Chars("date"), StrV(date)>>,
                       <<Chars("description"), StrV(description)>>,
                       <<Chars("period"), StrV(period)>> >>),
     v |-> IntV(j_id), exc |-> ""]
JournalIn(r, date, description, has_period, period) ==
    IF ~has_period /\ Len(date) = 7 /\ date[5] = "-"
    THEN [h |-> r.h, v |-> None, exc |-> "IndexError"]
    ELSE JournalNew(r.h, MetaOf(r.h, r.v), LedgerList(r.h, r.v, "journals"), date, description,
                    IF has_period THEN period ELSE PeriodOf(date),
                    NextId(r.h, MetaOf(r.h, r.v), "nextJournalId"))
create_journal(h, root, date, description, has_period, period) ==
    JournalIn(ensure_root_defaults(h, root), date, description,
              has_period /\ period # <<>>, period)

\* post_entry(root, account_code, asset_type_code, period, journal_id,
\* amount): [h, v], v the id of the posting; journal_id an int, amount a
\* float n/d
PostingNew(h, meta, postings, account, asset_type, period, journal_id, amount, seq) ==
    [h |-> Appended(h, meta, "nextPostingSeq", seq, postings,
                    << <<Chars("id"), IntV(seq)>>, <<Chars("journalId"), IntV(journal_id)>>,
                       <<Chars("accountId"), DictGet(h[account.id], Chars("id"))>>,
                       <<Chars("assetTypeId"), DictGet(h[asset_type.id], Chars("id"))>>,
                       <<Chars("period"), StrV(period)>>,
                       <<Chars("amount"), FloatV(amount.n, amount.d)>> >>),
     v |-> IntV(seq)]
PostingOf(root, account, t, period, journal_id, amount) ==
    PostingNew(t.h, MetaOf(t.h, root), LedgerList(t.h, root, "postings"), account, t.v,
               IF period = <<>> THEN Chars("0000-00") ELSE period, journal_id, amount,
               NextId(t.h, MetaOf(t.h, root), "nextPostingSeq"))
PostingFor(root, a, asset_type_code, period, journal_id, amount) ==
    PostingOf(root, a.v, get_or_create_asset_type(a.h, root, asset_type_code, <<>>),
              period, journal_id, amount)
PostingIn(r, account_code, asset_type_code, period, journal_id, amount) ==
    PostingFor(r.v, get_or_create_account(r.h, r.v, account_code, asset_type_code),
               asset_type_code, period, journal_id, amount)
post_entry(h, root, account_code, asset_type_code, period, journal_id, amount) ==
    PostingIn(ensure_root_defaults(h, root), account_code, asset_type_code, period,
              journal_id, amount)

(***************************************************************************)
(* VBInterpreter: expressions.                                             *)
(***************************************************************************)

\* float(v): [ok, n, d]; ok = FALSE is TypeError or ValueError.  Of the texts
\* float() accepts, the decimal ones are modelled: sign, digits, point, digits
FloatSigned(neg, r) == [ok |-> TRUE, n |-> IF neg THEN -r.n ELSE r.n, d |-> r.d]

\* the digits ip before and fp after the point
FloatOfParts(neg, ip, fp) ==
    IF /\ ip \o fp # <<>>
       /\ \A k \in 1..Len(ip) : IsDigit(ip[k])
       /\ \A k \in 1..Len(fp) : IsDigit(fp[k])
    THEN FloatSigned(neg, Rat(DigitsVal(ip) * Pow10(Len(fp)) + DigitsVal(fp), Pow10(Len(fp))))
    ELSE [ok |-> FALSE, n |-> 0, d |-> 1]

\* the text body after the sign, dot the position of its first point
FloatOfBody(neg, body, dot) ==
    FloatOfParts(neg,
                 IF dot = 0 THEN body ELSE Mid(body, 1, dot - 1),
                 IF dot = 0 THEN <<>> ELSE Mid(body, dot + 1, Len(body)))

FloatOfSigned(neg, body) == FloatOfBody(neg, body, FindAny(body, {"."}))

\* the text u without the blanks around it
FloatOfText(u) ==
    FloatOfSigned(u # <<>> /\ u[1] = "-",
                  IF u # <<>> /\ u[1] \in {"-", "+"} THEN Tail(u) ELSE u)

ToFloat(v) ==
    CASE v.t = "int" -> [ok |-> TRUE, n |-> v.i, d |-> 1]
      [] v.t = "bool" -> [ok |-> TRUE, n |-> IF v.b THEN 1 ELSE 0, d |-> 1]
      [] v.t = "float" -> [ok |-> TRUE, n |-> v.n, d |-> v.d]
      [] v.t = "str" -> FloatOfText(Strip(v.s))
      [] OTHER -> [ok |-> FALSE, n |-> 0, d |-> 1]

\* a = float(v), and 0.0 when float(v) raises
OperandOf(f) == IF f.ok THEN Rat(f.n, f.d) ELSE Rat(0, 1)
Operand(v) == OperandOf(ToFloat(v))

\* res = a op b without the guard of the division made safe: a faulty variant,
\* under which a / 0 is a
ArithZeroDivisor(op, a, b) ==
    CASE op = "+" -> Rat(a.n * b.d + b.n * a.d, a.d * b.d)
      [] op = "-" -> Rat(a.n * b.d - b.n * a.d, a.d * b.d)
      [] op = "*" -> Rat(a.n * b.n, a.d * b.d)
      [] op = "/" -> IF b.n # 0 THEN Rat(a.n * b.d, a.d * b.n) ELSE a

\* res = a op b on floats; a / b is 0.0 when b is 0
Arith(op, a, b) ==
    CASE op = "+" -> Rat(a.n * b.d + b.n * a.d, a.d * b.d)
      [] op = "-" -> Rat(a.n * b.d - b.n * a.d, a.d * b.d)
      [] op = "*" -> Rat(a.n * b.n, a.d * b.d)
      [] op = "/" -> IF b.n # 0 THEN Rat(a.n * b.d, a.d * b.n) ELSE Rat(0, 1)

\* int(res) whatever res is: a faulty variant, which drops the fraction
NormalizeTruncate(res) ==
    IntV(IF res.n >= 0 THEN res.n \div res.d ELSE -((-res.n) \div res.d))

\* "return int when exact": int(res) when res.is_integer(), else res
NormalizeResult(res) == IF res.d = 1 THEN IntV(res.n) ELSE FloatV(res.n, res.d)

\* the fast path of eval_expr: expr.startswith('"') and expr.endswith('"')
IsPlainLiteral(expr) == StartsWith(expr, <<"\"">>) /\ EndsWith(expr, <<"\"">>)

\* _parse_args: the loop over arg_str from position i (1-based)
RECURSIVE ParseArgsFrom(_, _, _, _, _, _, _)
ParseArgsFrom(s, i, buf, args, in_string, depth, prev) ==
    IF i > Len(s)
    THEN IF buf # <<>> THEN Append(args, Strip(buf)) ELSE args
    ELSE LET ch == s[i]
             ins == IF ch = "\"" /\ prev # "\\" THEN ~in_string ELSE in_string
         IN  IF ~ins /\ ch = "," /\ depth = 0
             THEN ParseArgsFrom(s, i + 1, <<>>,
                                IF Strip(buf) # <<>> THEN Append(args, Strip(buf)) ELSE args,
                                ins, depth, ch)
             ELSE ParseArgsFrom(s, i + 1, Append(buf, ch), args, ins,
                                IF ~ins /\ ch = "(" THEN depth + 1
                                ELSE IF ~ins /\ ch = ")" THEN depth - 1 ELSE depth,
                                ch)

\* _parse_args(arg_str)
ParseArgs(arg_str) == ParseArgsFrom(arg_str, 1, <<>>, <<>>, FALSE, 0, "")

\* the length of the longest prefix of s made of characters satisfying the test
WordRun(s) ==
    IF \E k \in 1..Len(s) : ~IsWordChar(s[k])
    THEN SetMin({k \in 1..Len(s) : ~IsWordChar(s[k])}) - 1
    ELSE Len(s)
SpaceRun(s) ==
    IF \E k \in 1..Len(s) : ~IsSpace(s[k])
    THEN SetMin({k \in 1..Len(s) : ~IsSpace(s[k])}) - 1
    ELSE Len(s)

\* re.match(r"(\w+)\s*\((.*)\)$", atom): [ok, name, arg_str]; w is the length
\* of the name, open the position of the parenthesis
FuncMatchAt(atom, w, open) ==
    IF w >= 1 /\ open < Len(atom) /\ atom[open] = "(" /\ atom[Len(atom)] = ")"
    THEN [ok |-> TRUE, name |-> Mid(atom, 1, w),
          arg_str |-> Mid(atom, open + 1, Len(atom) - 1)]
    ELSE [ok |-> FALSE, name |-> <<>>, arg_str |-> <<>>]
FuncMatchName(atom, w) == FuncMatchAt(atom, w, w + SpaceRun(From(atom, w)) + 1)
FuncMatch(atom) == FuncMatchName(atom, WordRun(atom))

\* the outcome of a built-in: r is [h, v], [h, v, exc], [s, exc] or [v, exc]
NewResult(st, r) == Ret([st EXCEPT !.heap = r.h], r.v)
ParseResult(st, r) ==
    IF r.exc # "" THEN Raise(st, r.exc) ELSE Ret([st EXCEPT !.heap = r.h], r.v)
StringifyResult(st, r) == IF r.exc # "" THEN Raise(st, r.exc) ELSE Ret(st, StrV(r.s))
GetResult(st, r) == IF r.exc # "" THEN Raise(st, r.exc) ELSE Ret(st, r.v)

\* VBInterpreter._call_function(name, args) with upper = name.upper(): the
\* JSON built-ins of expressions.  A name that is no built-in is reported and
\* yields None
JournalResult(st, r) ==
    IF r.exc # "" THEN Raise([st EXCEPT !.heap = r.h], r.exc)
    ELSE Ret([st EXCEPT !.heap = r.h], r.v)
\* NewJournal(date, description, [period]) on the tree bound to AppData
NewJournal(st, args) ==
    JournalResult(st, create_journal(st.heap, get_var(st.ctx, Chars("AppData")),
                                     IF Len(args) > 0 THEN PyStr(st.heap, args[1]) ELSE <<>>,
                                     IF Len(args) > 1 THEN PyStr(st.heap, args[2]) ELSE <<>>,
                                     Len(args) > 2 /\ ~IsNone(args[3]),
                                     IF Len(args) > 2 THEN PyStr(st.heap, args[3]) ELSE <<>>))
BuiltinCall(st, upper, args) ==
    IF upper = Chars("JSONNEW")
    THEN IF Len(args) < 1 THEN Raise(st, "IndexError")
         ELSE NewResult(st, json_new(st.heap, PyStr(st.heap, args[1])))
    ELSE IF upper = Chars("JSONPARSE")
    THEN IF Len(args) < 1 THEN Raise(st, "IndexError")
         ELSE ParseResult(st, json_parse(st.heap, PyStr(st.heap, args[1])))
    ELSE IF upper = Chars("JSONSTRINGIFY")
    THEN IF Len(args) < 1 THEN Raise(st, "IndexError")
         ELSE StringifyResult(st, json_stringify(st.heap, args[1]))
    ELSE IF upper = Chars("JSONGET")
    THEN IF Len(args) < 2 THEN Raise(st, "IndexError")
         ELSE GetResult(st, json_get(st.heap, args[1], PyStr(st.heap, args[2])))
    ELSE IF upper = Chars("NEWJOURNAL") THEN NewJournal(st, args)
    ELSE Ret(Diag(st, "Unknown function in expression"), None)

\* _call_function(name, args)
CallFunction(st, name, args) == BuiltinCall(st, Upper(name), args)

\* eval_expr / eval_atom: [st, v, exc]
RECURSIVE eval_expr(_, _), eval_atom(_, _), EvalEach(_, _, _, _)

\* [f(t) for t in texts], f being eval_expr (atoms = FALSE) or eval_atom; r is
\* the result for the first text
EvalRest(texts, atoms, done, r) ==
    IF r.exc # "" THEN [st |-> r.st, vs |-> done, exc |-> r.exc]
    ELSE EvalEach(r.st, Tail(texts), atoms, Append(done, r.v))
EvalEach(st, texts, atoms, done) ==
    IF texts = <<>> THEN [st |-> st, vs |-> done, exc |-> ""]
    ELSE EvalRest(texts, atoms, done,
                  IF atoms THEN eval_atom(st, Head(texts)) ELSE eval_expr(st, Head(texts)))

\* eval_atom, function call: r holds the values of the arguments
AtomCall(name, r) ==
    IF r.exc # "" THEN Raise(r.st, r.exc) ELSE CallFunction(r.st, name, r.vs)

\* eval_atom, variable.property: obj[attr] when obj has no attribute attr
AtomItem(st, item) == IF item.exc # "" THEN Ret(st, None) ELSE Ret(st, item.v)
AtomMember(st, obj, attr) ==
    IF IsNone(obj) THEN Ret(st, None)
    ELSE IF HasAttr(st.heap, obj, attr) THEN Ret(st, GetAttr(st.heap, obj, attr))
    ELSE AtomItem(st, Subscript(st.heap, obj, KeyTok(attr)))

\* eval_atom after the literals: m is the match of the function call pattern
AtomName(st, atom, m) ==
    \* function call
    IF m.ok
    THEN AtomCall(m.name, EvalEach(st, IF Strip(m.arg_str) # <<>>
                                       THEN ParseArgs(Strip(m.arg_str)) ELSE <<>>,
                                   FALSE, <<>>))
    \* variable.property
    ELSE IF "." \in Range(atom)
    THEN AtomMember(st, get_var(st.ctx, Strip(SplitOnce(atom, ".")[1])),
                    Strip(SplitOnce(atom, ".")[2]))
    \* bare variable
    ELSE Ret(st, get_var(st.ctx, atom))

\* eval_atom on the stripped text
AtomValue(st, atom) ==
    IF atom = <<>> THEN Ret(st, StrV(<<>>))
    \* string literal
    ELSE IF StartsWith(atom, <<"\"">>) /\ EndsWith(atom, <<"\"">>)
    THEN Ret(st, StrV(UnDouble(Mid(atom, 2, Len(atom) - 1))))
    \* numeric literal
    ELSE IF IsNumericLiteral(atom)
    THEN IF "." \in Range(atom)
         THEN Ret(st, FloatV(DecimalVal(atom).n, DecimalVal(atom).d))
         ELSE Ret(st, IntV(DigitsVal(atom)))
    ELSE AtomName(st, atom, FuncMatch(atom))

eval_atom(st, text) == AtomValue(st, Strip(text))

\* "" if v is None else str(v)
ConcatText(h, v) == IF IsNone(v) THEN <<>> ELSE PyStr(h, v)

\* step 2 of eval_expr: the single binary arithmetic operation, when
\* re.match(r"^(.*?)([+\-*/])(.*)$", expr) has two non-empty sides; k is the
\* position of the first operator character
ArithMatchSides(op, left, right) ==
    [ok |-> left # <<>> /\ right # <<>>, left |-> left, op |-> op, right |-> right]
ArithMatchAt(expr, k) ==
    IF k = 0 THEN [ok |-> FALSE, left |-> <<>>, op |-> "", right |-> <<>>]
    ELSE ArithMatchSides(expr[k], Strip(Mid(expr, 1, k - 1)), Strip(From(expr, k)))
ArithMatch(expr) == ArithMatchAt(expr, FindAny(expr, {"+", "-", "*", "/"}))

\* the step of eval_expr that applies to expr: the literal of the fast path
\* and the fallback go to eval_atom
ExprKind(expr, m) ==
    IF IsPlainLiteral(expr) THEN "atom"
    ELSE IF "&" \in Range(expr) THEN "concat"
    ELSE IF m.ok THEN "arith"
    ELSE "atom"

\* what eval_expr evaluates with eval_atom: the segments of a concatenation,
\* the two sides of an arithmetic operation, or the whole expression
ExprAtoms(expr, m, kind, split) ==
    CASE kind = "concat" -> Tup([k \in 1..Len(split) |-> Strip(split[k])])
      [] kind = "arith" -> <<m.left, m.right>>
      [] OTHER -> <<expr>>

\* eval_expr once its atoms are evaluated
ExprResult(kind, op, r) ==
    IF r.exc # "" THEN Raise(r.st, r.exc)
    ELSE CASE kind = "concat" ->
                Ret(r.st, StrV(Join(Tup([k \in 1..Len(r.vs) |-> ConcatText(r.st.heap, r.vs[k])]))))
           [] kind = "arith" ->
                Ret(r.st, NormalizeResult(Arith(op, Operand(r.vs[1]), Operand(r.vs[2]))))
           [] OTHER -> Ret(r.st, r.vs[1])

ExprOfKind(st, expr, m, kind) ==
    ExprResult(kind, m.op,
               EvalEach(st, ExprAtoms(expr, m, kind, SplitOn(expr, "&")), TRUE, <<>>))
ExprMatched(st, expr, m) == ExprOfKind(st, expr, m, ExprKind(expr, m))
ExprValue(st, expr) ==
    IF expr = <<>> THEN Ret(st, StrV(<<>>)) ELSE ExprMatched(st, expr, ArithMatch(expr))

eval_expr(st, text) == ExprValue(st, Strip(text))

(***************************************************************************)
(* VBInterpreter: conditions.                                              *)
(***************************************************************************)

\* the characters of the model's texts in the order of their code points
AsciiChars ==
    Chars("\t\n !\"#$%&'()*+,-./0123456789:;<=>?@ABCDEFGHIJKLMNOPQRSTUVWXYZ[\\]^_abcdefghijklmnopqrstuvwxyz{|}~")

\* ord(c)
Ord(c) == CHOOSE k \in 1..Len(AsciiChars) : AsciiChars[k] = c

\* a < b on str
RECURSIVE StrLess(_, _)
StrLess(a, b) ==
    IF b = <<>> THEN FALSE
    ELSE IF a = <<>> THEN TRUE
    ELSE IF a[1] # b[1] THEN Ord(a[1]) < Ord(b[1])
    ELSE StrLess(Tail(a), Tail(b))

\* the numeric value of an int, float or bool as a rational
FloatRat(f) == Rat(f.n, f.d)
NumOf(v) == FloatRat(ToFloat(v))

IsNumeric(v) == v.t \in {"int", "float", "bool"}

\* a == b of Python; dicts and lists are compared by content (to the depth
\* fuel), every other object by identity
RECURSIVE PyEq(_, _, _, _)
PyEq(h, a, b, fuel) ==
    IF IsNumeric(a) /\ IsNumeric(b) THEN NumOf(a) = NumOf(b)
    ELSE IF a.t = "str" /\ b.t = "str" THEN a.s = b.s
    ELSE IF IsDict(h, a) /\ IsDict(h, b)
    THEN \/ a.id = b.id
         \/ /\ fuel > 0
            /\ Len(h[a.id].items) = Len(h[b.id].items)
            /\ \A k \in 1..Len(h[a.id].items) :
                  /\ DictHas(h[b.id], h[a.id].items[k][1])
                  /\ PyEq(h, h[a.id].items[k][2], DictGet(h[b.id], h[a.id].items[k][1]), fuel - 1)
    ELSE IF IsList(h, a) /\ IsList(h, b)
    THEN \/ a.id = b.id
         \/ /\ fuel > 0
            /\ Len(h[a.id].elems) = Len(h[b.id].elems)
            /\ \A k \in 1..Len(h[a.id].elems) :
                  PyEq(h, h[a.id].elems[k], h[b.id].elems[k], fuel - 1)
    ELSE a.t = b.t /\ a = b

\* a < b of Python: [v, exc]; numbers with numbers and str with str are
\* ordered, anything else is TypeError
NumLess(x, y) == [v |-> x.n * y.d < y.n * x.d, exc |-> ""]
PyLess(a, b) ==
    IF IsNumeric(a) /\ IsNumeric(b) THEN NumLess(NumOf(a), NumOf(b))
    ELSE IF a.t = "str" /\ b.t = "str" THEN [v |-> StrLess(a.s, b.s), exc |-> ""]
    ELSE [v |-> FALSE, exc |-> "TypeError"]

\* to_num of _coerce_for_compare: [v, is]; f is float(x), i is int(x)
ToNumFloat(x, f) ==
    IF f.ok THEN [v |-> FloatV(f.n, f.d), is |-> TRUE] ELSE [v |-> x, is |-> FALSE]
ToNumInt(x, i) ==
    IF i.ok THEN [v |-> IntV(i.i), is |-> TRUE] ELSE [v |-> x, is |-> FALSE]
to_num(x) ==
    IF x.t \in {"int", "float", "bool"} THEN [v |-> x, is |-> TRUE]
    ELSE IF x.t = "str"
    THEN IF "." \in Range(x.s) THEN ToNumFloat(x, ToFloat(x)) ELSE ToNumInt(x, PyInt(x.s))
    ELSE [v |-> x, is |-> FALSE]

\* _coerce_for_compare without the conversion: a faulty variant, under which
\* numeric strings are compared as strings
CoercedNever(left, right, l, r) == <<left, right>>

\* _coerce_for_compare(left, right)
Coerced(left, right, l, r) == IF l.is /\ r.is THEN <<l.v, r.v>> ELSE <<left, right>>
coerce_for_compare(left, right) == Coerced(left, right, to_num(left), to_num(right))

\* re.match(r"^(.*?)(=|<>|<=|>=|<|>)(.*)$", cond): the leftmost position k at
\* which an alternative matches, the alternatives tried in their order
CondMatchOp(cond, k, op) ==
    [ok |-> TRUE, left |-> Strip(Mid(cond, 1, k - 1)), op |-> op,
     right |-> Strip(From(cond, k - 1 + Len(op)))]
\* the match with the alternatives of one character only: a faulty variant,
\* under which <= is read as < with = left in the right operand
CondMatchAtOneChar(cond, k) ==
    IF k = 0 THEN [ok |-> FALSE, left |-> <<>>, op |-> <<>>, right |-> <<>>]
    ELSE CondMatchOp(cond, k, <<cond[k]>>)
CondMatchAt(cond, k) ==
    IF k = 0 THEN [ok |-> FALSE, left |-> <<>>, op |-> <<>>, right |-> <<>>]
    ELSE CondMatchOp(cond, k,
                     IF cond[k] = "=" THEN <<"=">>
                     ELSE IF Mid(cond, k, k + 1) \in {Chars("<>"), Chars("<="), Chars(">=")}
                     THEN Mid(cond, k, k + 1)
                     ELSE <<cond[k]>>)
CondMatch(cond) == CondMatchAt(cond, FindAny(cond, {"=", "<", ">"}))

\* the comparison of _eval_condition: [v, exc]; eq is l == r, and less is
\* l < r, or r < l for > and <= (l > r is r < l, l <= r is not r < l, l >= r is
\* not l < r)
CompareWith(op, eq, less) ==
    CASE op = Chars("=") -> [v |-> eq, exc |-> ""]
      [] op = Chars("<>") -> [v |-> ~eq, exc |-> ""]
      [] op \in {Chars("<"), Chars(">")} -> less
      [] op \in {Chars("<="), Chars(">=")} ->
           IF less.exc # "" THEN less ELSE [v |-> ~less.v, exc |-> ""]
Compare(h, op, l, r) ==
    CompareWith(op, PyEq(h, l, r, Len(h)),
                PyLess(IF op \in {Chars(">"), Chars("<=")} THEN r ELSE l,
                       IF op \in {Chars(">"), Chars("<=")} THEN l ELSE r))

\* bool(v)
Truthy(h, v) ==
    CASE v.t = "none" -> FALSE
      [] v.t = "bool" -> v.b
      [] v.t = "int" -> v.i # 0
      [] v.t = "float" -> v.n # 0
      [] v.t = "str" -> v.s # <<>>
      [] IsDict(h, v) -> h[v.id].items # <<>>
      [] IsList(h, v) -> h[v.id].elems # <<>>
      [] OTHER -> TRUE

\* _eval_condition(cond): [st, v, exc] with v a truth value.  c is the outcome
\* of the comparison, co the coerced sides, r the values of the two sides of
\* a comparison or of the whole condition
CondCompared(st, c) ==
    IF c.exc # ""
    THEN [st |-> Diag(st, "Error comparing values in If"), v |-> FALSE, exc |-> ""]
    ELSE [st |-> st, v |-> c.v, exc |-> ""]
CondCoerced(st, op, co) == CondCompared(st, Compare(st.heap, op, co[1], co[2]))
CondResult(m, r) ==
    IF r.exc # "" THEN [st |-> r.st, v |-> FALSE, exc |-> r.exc]
    ELSE IF m.ok THEN CondCoerced(r.st, m.op, coerce_for_compare(r.vs[1], r.vs[2]))
    ELSE [st |-> r.st, v |-> Truthy(r.st.heap, r.vs[1]), exc |-> ""]
CondMatched(st, cond, m) ==
    CondResult(m, EvalEach(st, IF m.ok THEN <<m.left, m.right>> ELSE <<cond>>, FALSE, <<>>))
CondValue(st, cond) ==
    IF cond = <<>> THEN [st |-> st, v |-> FALSE, exc |-> ""]
    ELSE CondMatched(st, cond, CondMatch(cond))

eval_condition(st, text) == CondValue(st, Strip(text))

(***************************************************************************)
(* VBInterpreter: simple statements.                                       *)
(***************************************************************************)

\* _find_assignment_equals(line): the 1-based position of the first "=" outside
\* a string literal, 0 when there is none
RECURSIVE FindEqFrom(_, _, _, _)
FindEqFrom(line, i, in_string, prev) ==
    IF i > Len(line) THEN 0
    ELSE LET ins == IF line[i] = "\"" /\ prev # "\\" THEN ~in_string ELSE in_string
         IN  IF line[i] = "=" /\ ~ins THEN i
             ELSE FindEqFrom(line, i + 1, ins, line[i])

find_assignment_equals(line) == FindEqFrom(line, 1, FALSE, "")

\* re.split(r'\s+', name)[0] for a stripped, non-empty name
FirstWord(name) ==
    IF \E k \in 1..Len(name) : IsSpace(name[k])
    THEN Mid(name, 1, SetMin({k \in 1..Len(name) : IsSpace(name[k])}) - 1)
    ELSE name

\* _exec_dim(decl): the Context after it
RECURSIVE DimNames(_, _)
\* _exec_dim without the test of has_var: a faulty variant, under which a
\* declaration resets a bound name to None
DimNameResets(c, names, name) ==
    IF name = <<>> THEN DimNames(c, Tail(names))
    ELSE DimNames(set_var(c, FirstWord(name), None), Tail(names))

\* one name of the declaration
DimName(c, names, name) ==
    IF name = <<>> THEN DimNames(c, Tail(names))
    ELSE IF ~has_var(c, FirstWord(name))
    THEN DimNames(set_var(c, FirstWord(name), None), Tail(names))
    ELSE DimNames(c, Tail(names))
DimNames(c, names) ==
    IF names = <<>> THEN c ELSE DimName(c, names, Strip(Head(names)))

exec_dim(st, decl) == [st EXCEPT !.ctx = DimNames(st.ctx, SplitOn(decl, ","))]

\* assign(left, value): [st, exc]
AssignSet(st, r) == [st |-> [st EXCEPT !.heap = r.h], exc |-> r.exc]
AssignMember(st, obj, attr, value) ==
    IF HasAttr(st.heap, obj, attr) THEN AssignSet(st, SetAttr(st.heap, obj, attr, value))
    ELSE IF IsDict(st.heap, obj)
    THEN [st |-> [st EXCEPT !.heap[obj.id] = DictSet(@, attr, value)], exc |-> ""]
    \* obj[attr] = value raises TypeError: reported
    ELSE [st |-> Diag(st, "Cannot assign"), exc |-> ""]
AssignBound(st, var_name, attr, value) ==
    AssignMember(st, get_var(st.ctx, var_name), attr, value)
AssignDotted(st, var_name, attr, value) ==
    \* obj = {} ; self.ctx.set_var(var_name, obj)
    AssignBound(IF IsNone(get_var(st.ctx, var_name))
                THEN [st EXCEPT !.heap = Append(@, DictNode(<<>>)),
                                !.ctx = set_var(@, var_name, RefV(Len(st.heap) + 1))]
                ELSE st,
                var_name, attr, value)
assign(st, left, value) ==
    IF "." \in Range(left)
    THEN AssignDotted(st, Strip(SplitOnce(left, ".")[1]), Strip(SplitOnce(left, ".")[2]), value)
    ELSE [st |-> [st EXCEPT !.ctx = set_var(@, left, value)], exc |-> ""]

\* the arguments of a call statement: the parentheses around arg_str dropped,
\* and split
CallArgs(arg_str) ==
    IF arg_str = <<>> THEN <<>>
    ELSE ParseArgs(IF StartsWith(arg_str, <<"(">>) /\ EndsWith(arg_str, <<")">>)
                   THEN Mid(arg_str, 2, Len(arg_str) - 1)
                   ELSE arg_str)

\* re.match(r"(\w+)\.(\w+)\s*(.*)", line): [ok, obj_name, meth_name, arg_str];
\* w1 and w2 are the lengths of the two names, rest the text after the point
MethodMatchRest(line, w1, rest, w2) ==
    IF w1 >= 1 /\ w1 < Len(line) /\ line[w1 + 1] = "." /\ w2 >= 1
    THEN [ok |-> TRUE, obj_name |-> Mid(line, 1, w1), meth_name |-> Mid(rest, 1, w2),
          arg_str |-> Strip(From(rest, w2))]
    ELSE [ok |-> FALSE, obj_name |-> <<>>, meth_name |-> <<>>, arg_str |-> <<>>]
MethodMatchPoint(line, w1, rest) == MethodMatchRest(line, w1, rest, WordRun(rest))
MethodMatchName(line, w1) == MethodMatchPoint(line, w1, From(line, w1 + 1))
MethodMatch(line) == MethodMatchName(line, WordRun(line))

\* re.match(r"(\w+)\s*(.*)", line): [ok, name, arg_str]
BareMatchName(line, w) ==
    [ok |-> w >= 1, name |-> Mid(line, 1, w), arg_str |-> Strip(From(line, w))]
BareMatch(line) == BareMatchName(line, WordRun(line))

\* the arguments exec_call(line) evaluates
CallTextsOf(mm, bm) ==
    IF mm.ok THEN CallArgs(mm.arg_str)
    ELSE IF bm.ok THEN CallArgs(bm.arg_str)
    ELSE <<>>
CallTexts(line) == CallTextsOf(MethodMatch(line), BareMatch(line))

\* exec_call, obj.method args: [st, exc]
MethodCalled(st, called) ==
    IF called.exc # "" THEN [st |-> Diag(st, "Error calling"), exc |-> ""]
    ELSE [st |-> [st EXCEPT !.heap = called.h], exc |-> ""]
MethodCall(st, obj, meth_name, eval_args) ==
    IF IsNone(obj)
    THEN [st |-> Diag(st, "Method call on unknown object"), exc |-> ""]
    ELSE IF ~HasAttr(st.heap, obj, meth_name)
    THEN [st |-> Diag(st, "Object has no method"), exc |-> ""]
    ELSE MethodCalled(st, CallAttr(st.heap, obj, meth_name, eval_args))

\* int(v), and 0 when int(v) raises TypeError or ValueError
IntArg(v) ==
    CASE v.t = "int" -> v.i
      [] v.t = "bool" -> IF v.b THEN 1 ELSE 0
      [] v.t = "float" -> IF v.n >= 0 THEN v.n \div v.d ELSE -((-v.n) \div v.d)
      [] v.t = "str" -> IF PyInt(v.s).ok THEN PyInt(v.s).i ELSE 0
      [] OTHER -> 0

\* PostEntry accountCode, assetTypeCode, period, journalId, amount on the
\* tree bound to AppData
PostEntry(st, eval_args) ==
    [st |-> [st EXCEPT !.heap = post_entry(st.heap, get_var(st.ctx, Chars("AppData")),
                                           PyStr(st.heap, eval_args[1]),
                                           PyStr(st.heap, eval_args[2]),
                                           PyStr(st.heap, eval_args[3]),
                                           IntArg(eval_args[4]), Operand(eval_args[5])).h],
     exc |-> ""]

\* exec_call, the built-in statements, upper = name.upper(): [st, exc]
JsonSetDone(st, r) == [st |-> [st EXCEPT !.heap = r.h], exc |-> r.exc]
BuiltinStatement(st, upper, eval_args) ==
    IF upper = Chars("MSGBOX")
    THEN [st |-> MsgBox(st, IF eval_args # <<>> THEN eval_args[1] ELSE StrV(<<>>)), exc |-> ""]
    ELSE IF upper = Chars("JSONSET")
    THEN IF Len(eval_args) < 3
         THEN [st |-> Diag(st, "JsonSet requires 3 args"), exc |-> ""]
         ELSE JsonSetDone(st, json_set(st.heap, eval_args[1], PyStr(st.heap, eval_args[2]),
                                       eval_args[3]))
    ELSE IF upper = Chars("BROWSEREVALJS")
    THEN IF Len(eval_args) < 2
         THEN [st |-> Diag(st, "BrowserEvalJs requires browser and script"), exc |-> ""]
         \* no object of the model has an attribute EvalJs
         ELSE [st |-> Diag(st, "First argument to BrowserEvalJs is not a browser object"),
               exc |-> ""]
    ELSE IF upper = Chars("POSTENTRY")
    THEN IF Len(eval_args) < 5
         THEN [st |-> Diag(st, "PostEntry requires 5 args"), exc |-> ""]
         ELSE PostEntry(st, eval_args)
    ELSE [st |-> Diag(st, "Unknown statement"), exc |-> ""]

\* exec_call(line) once its arguments are evaluated to eval_args: [st, exc]
ExecCallMatched(st, mm, bm, eval_args) ==
    IF mm.ok THEN MethodCall(st, get_var(st.ctx, mm.obj_name), mm.meth_name, eval_args)
    ELSE IF ~bm.ok THEN [st |-> Diag(st, "Cannot parse line"), exc |-> ""]
    ELSE BuiltinStatement(st, Upper(bm.name), eval_args)
exec_call(st, line, eval_args) ==
    ExecCallMatched(st, MethodMatch(line), BareMatch(line), eval_args)

\* the branch of exec_line that line takes; eq_pos is the position of the
\* assignment "=", 0 when there is none
LineKind(upper, eq_pos) ==
    IF StartsWith(upper, Chars("DIM ")) THEN "dim"
    ELSE IF eq_pos # 0 /\ ~StartsWith(upper, Chars("IF ")) THEN "assign"
    ELSE "call"

\* exec_line once the right side of the assignment, or the arguments of the
\* call, are evaluated
LineResult(line, eq_pos, kind, r) ==
    IF r.exc # "" THEN [st |-> r.st, exc |-> r.exc]
    ELSE IF kind = "assign" THEN assign(r.st, Strip(Mid(line, 1, eq_pos - 1)), r.vs[1])
    ELSE exec_call(r.st, line, r.vs)
LineOfKind(st, line, eq_pos, kind) ==
    IF kind = "dim" THEN [st |-> exec_dim(st, Strip(From(line, 3))), exc |-> ""]
    ELSE LineResult(line, eq_pos, kind,
                    EvalEach(st, IF kind = "assign" THEN <<Strip(From(line, eq_pos))>>
                                 ELSE CallTexts(line),
                             FALSE, <<>>))
LineAt(st, line, eq_pos) == LineOfKind(st, line, eq_pos, LineKind(Upper(line), eq_pos))

\* exec_line(line): [st, exc]
exec_line(st, line) ==
    LineAt(st, line, IF "=" \in Range(line) THEN find_assignment_equals(line) ELSE 0)

(***************************************************************************)
(* VBInterpreter: the normalizer and the program store.                    *)
(***************************************************************************)

\* str.splitlines()
splitlines(text) ==
    LET parts == SplitOn(text, "\n")
    IN  IF parts[Len(parts)] = <<>> THEN Mid(parts, 1, Len(parts) - 1) ELSE parts

\* the logical line full is kept when it is not empty and no comment
KeepLine(logical_lines, full) ==
    IF full # <<>> /\ ~StartsWith(full, <<"'">>) THEN Append(logical_lines, full)
    ELSE logical_lines

\* _normalize_lines: the loop over raw_lines from position k with the
\* accumulator acc, and what follows the loop
RECURSIVE NormalizeFrom(_, _, _, _)
NormalizeFrom(raw_lines, k, acc, logical_lines) ==
    IF k > Len(raw_lines)
    THEN IF acc # <<>> THEN KeepLine(logical_lines, Strip(acc)) ELSE logical_lines
    ELSE LET line == RStrip(raw_lines[k])
         IN  IF acc = <<>> /\ Strip(line) = <<>>
             THEN NormalizeFrom(raw_lines, k + 1, acc, logical_lines)
             ELSE IF acc = <<>> /\ StartsWith(LStrip(line), <<"'">>)
             THEN NormalizeFrom(raw_lines, k + 1, acc, logical_lines)
             ELSE IF EndsWith(line, <<"_">>)
             THEN LET part == RStrip(Mid(line, 1, Len(line) - 1))
                  IN  NormalizeFrom(raw_lines, k + 1,
                                    IF acc # <<>> THEN acc \o <<" ">> \o part ELSE part,
                                    logical_lines)
             ELSE LET full == IF acc # <<>> THEN Strip(acc \o <<" ">> \o line) ELSE Strip(line)
                  IN  NormalizeFrom(raw_lines, k + 1, <<>>, KeepLine(logical_lines, full))

\* _normalize_lines(body)
normalize_lines(body) == NormalizeFrom(splitlines(body), 1, <<>>, <<>>)

\* one match of kw\s+(\w+)\s*\(\)\s*(.*?)endkw (IGNORECASE, DOTALL) at position
\* p of text: [ok, name, body, stop], stop the position after the match.  The
\* name is text[b..c-1], the parentheses are at d, the body starts at e and
\* ends before the first end keyword at or after e
NoUnit(p) == [ok |-> FALSE, name |-> <<>>, body |-> <<>>, stop |-> p + 1]
UnitEnds(text, p, b, c, e, endkw, ends) ==
    IF ends # {}
    THEN [ok |-> TRUE, name |-> Mid(text, b, c - 1),
          body |-> Mid(text, e, SetMin(ends) - 1), stop |-> SetMin(ends) + Len(endkw)]
    ELSE NoUnit(p)
UnitBody(text, p, b, c, e, endkw) ==
    UnitEnds(text, p, b, c, e, endkw,
             {q \in e..(Len(text) - Len(endkw) + 1) :
                 Upper(Mid(text, q, q + Len(endkw) - 1)) = endkw})
UnitParens(text, p, b, c, d, endkw) ==
    IF Mid(text, d, d + 1) = Chars("()")
    THEN UnitBody(text, p, b, c, d + 2 + SpaceRun(From(text, d + 1)), endkw)
    ELSE NoUnit(p)
UnitName(text, p, b, c, endkw) ==
    IF c > b THEN UnitParens(text, p, b, c, c + SpaceRun(From(text, c - 1)), endkw)
    ELSE NoUnit(p)
UnitKeyword(text, p, a, b, endkw) ==
    IF b > a THEN UnitName(text, p, b, b + WordRun(From(text, b - 1)), endkw)
    ELSE NoUnit(p)
UnitMatchAt(text, p, kw, endkw) ==
    IF UpperChar(text[p]) = kw[1] /\ Upper(Mid(text, p, p + Len(kw) - 1)) = kw
    THEN UnitKeyword(text, p, p + Len(kw),
                     p + Len(kw) + SpaceRun(From(text, p + Len(kw) - 1)), endkw)
    ELSE NoUnit(p)

\* for m in pattern.finditer(source): store[name] = _normalize_lines(body).
\* starts holds the positions of text at which the pattern matches; finditer
\* takes the leftmost one at or after pos and goes on after that match
RECURSIVE LoadUnits(_, _, _, _, _, _)
LoadUnit(text, starts, kw, endkw, store, m) ==
    LoadUnits(text, starts, m.stop, kw, endkw, MapSet(store, m.name, normalize_lines(m.body)))
LoadUnits(text, starts, pos, kw, endkw, store) ==
    IF \A p \in starts : p < pos THEN store
    ELSE LoadUnit(text, starts, kw, endkw, store,
                  UnitMatchAt(text, SetMin({p \in starts : p >= pos}), kw, endkw))

\* the positions of text at which the pattern of kw and endkw matches
UnitStarts(text, kw, endkw) == {p \in 1..Len(text) : UnitMatchAt(text, p, kw, endkw).ok}

\* load_source(source) on the stores procs and funcs: the procedures and the
\* functions after it, each a mapping from the name as written to the logical
\* lines of the body
load_source(procs, funcs, source) ==
    [procedures |-> LoadUnits(source, UnitStarts(source, Chars("SUB"), Chars("END SUB")), 1,
                              Chars("SUB"), Chars("END SUB"), procs),
     functions |-> LoadUnits(source, UnitStarts(source, Chars("FUNCTION"), Chars("END FUNCTION")), 1,
                             Chars("FUNCTION"), Chars("END FUNCTION"), funcs)]

(***************************************************************************)
(* VBInterpreter: the block executor.  Line indices are those of the       *)
(* source: 0-based, lines[i] of Python being lines[i + 1] here.            *)
(***************************************************************************)

\* upper.startswith("IF ") and " THEN" in upper
IsIfHeader(upper) == StartsWith(upper, Chars("IF ")) /\ Contains(upper, Chars(" THEN"))

\* upper.startswith("WHILE ")
IsWhileHeader(upper) == StartsWith(upper, Chars("WHILE "))

\* upper.startswith("DO")
IsDoHeader(upper) == StartsWith(upper, Chars("DO"))

\* cur.startswith("LOOP")
IsLoopFooter(upper) == StartsWith(upper, Chars("LOOP"))

\* the scan of _exec_if_block without the count of nested headers: a faulty
\* variant, under which the first End If closes the block
RECURSIVE IfScanFlat(_, _, _, _, _)
IfScanFlat(lines, j, end, depth, else_index) ==
    IF ~(j < end /\ depth > 0) THEN [j |-> j, depth |-> depth, else_index |-> else_index]
    ELSE IF Upper(Strip(lines[j + 1])) = Chars("END IF")
    THEN IfScanFlat(lines, j + 1, end, depth - 1, else_index)
    ELSE IF Upper(Strip(lines[j + 1])) = Chars("ELSE") /\ else_index = -1
    THEN IfScanFlat(lines, j + 1, end, depth, j)
    ELSE IfScanFlat(lines, j + 1, end, depth, else_index)

\* the scan of _exec_if_block: while j < end and depth > 0
RECURSIVE IfScan(_, _, _, _, _)
IfScan(lines, j, end, depth, else_index) ==
    IF ~(j < end /\ depth > 0) THEN [j |-> j, depth |-> depth, else_index |-> else_index]
    ELSE LET ucur == Upper(Strip(lines[j + 1]))
         IN  IF IsIfHeader(ucur) THEN IfScan(lines, j + 1, end, depth + 1, else_index)
             ELSE IF ucur = Chars("END IF") THEN IfScan(lines, j + 1, end, depth - 1, else_index)
             ELSE IF ucur = Chars("ELSE") /\ depth = 1 /\ else_index = -1
             THEN IfScan(lines, j + 1, end, depth, j)
             ELSE IfScan(lines, j + 1, end, depth, else_index)

\* the ranges with a Then-range that runs to the End If even when there is
\* an Else: a faulty variant, under which a true condition runs both ranges
IfRangesThenToEnd(lines, i, sc) ==
    [cond_text |-> Strip(Mid(lines[i + 1], 3, RFind(Upper(lines[i + 1]), Chars("THEN")) - 1)),
     matched |-> sc.depth = 0, j |-> sc.j,
     then_start |-> i + 1,
     then_end |-> sc.j - 1,
     else_index |-> sc.else_index,
     else_start |-> sc.else_index + 1, else_end |-> sc.j - 1,
     end_if |-> sc.j - 1]

\* what _exec_if_block finds for the header at i: the condition text and the
\* ranges (else_index = -1 is None); sc is the outcome of the scan
IfRanges(lines, i, sc) ==
    [cond_text |-> Strip(Mid(lines[i + 1], 3, RFind(Upper(lines[i + 1]), Chars("THEN")) - 1)),
     matched |-> sc.depth = 0, j |-> sc.j,
     then_start |-> i + 1,
     then_end |-> IF sc.else_index # -1 THEN sc.else_index ELSE sc.j - 1,
     else_index |-> sc.else_index,
     else_start |-> sc.else_index + 1, else_end |-> sc.j - 1,
     end_if |-> sc.j - 1]
IfBlock(lines, i, end) == IfRanges(lines, i, IfScan(lines, i + 1, end, 1, -1))

\* the scan of _exec_while_block
RECURSIVE WhileScan(_, _, _, _)
WhileScan(lines, j, end, depth) ==
    IF ~(j < end /\ depth > 0) THEN [j |-> j, depth |-> depth]
    ELSE LET cur == Upper(Strip(lines[j + 1]))
         IN  IF IsWhileHeader(cur) THEN WhileScan(lines, j + 1, end, depth + 1)
             ELSE IF cur = Chars("WEND") THEN WhileScan(lines, j + 1, end, depth - 1)
             ELSE WhileScan(lines, j + 1, end, depth)

\* the scan of _exec_do_block for Do While: it stops after the footer
RECURSIVE DoScan(_, _, _, _)
DoScan(lines, j, end, depth) ==
    IF ~(j < end /\ depth > 0) THEN [j |-> j, depth |-> depth]
    ELSE LET cur == Upper(Strip(lines[j + 1]))
         IN  IF IsDoHeader(cur) THEN DoScan(lines, j + 1, end, depth + 1)
             ELSE IF IsLoopFooter(cur) THEN DoScan(lines, j + 1, end, depth - 1)
             ELSE DoScan(lines, j + 1, end, depth)

\* the scan of _exec_do_block for Do ... Loop While: it stops at the footer
\* (loop_index = -1 is None)
RECURSIVE DoPostScan(_, _, _, _)
DoPostScan(lines, j, end, depth) ==
    IF ~(j < end /\ depth > 0) THEN [j |-> j, loop_index |-> -1]
    ELSE LET cur == Upper(Strip(lines[j + 1]))
         IN  IF IsDoHeader(cur) THEN DoPostScan(lines, j + 1, end, depth + 1)
             ELSE IF IsLoopFooter(cur)
             THEN IF depth - 1 = 0 THEN [j |-> j, loop_index |-> j]
                  ELSE DoPostScan(lines, j + 1, end, depth - 1)
             ELSE DoPostScan(lines, j + 1, end, depth)

\* the condition of the footer of Do ... Loop While; supported = FALSE for any
\* other footer, which runs as the condition False
LoopCond(loop_line) ==
    IF StartsWith(Upper(loop_line), Chars("LOOP WHILE"))
    THEN [supported |-> TRUE, cond_text |-> Strip(From(loop_line, 10))]
    ELSE [supported |-> FALSE, cond_text |-> Chars("False")]

(***************************************************************************)
(* The engine as a state machine.  A call of call_sub or call_function is  *)
(* run one line at a time; stack holds the activations of run_lines and of *)
(* the loops that are in progress, innermost last.                         *)
(***************************************************************************)

VARIABLES
    procedures,   \* VBInterpreter.procedures: name -> logical lines
    functions,    \* VBInterpreter.functions: name -> logical lines
    ctx,          \* VBContext.globals
    heap,         \* the objects the values of ctx refer to
    out,          \* what has been printed and shown, in order
    stack,        \* the activations in progress
    call,         \* the call of the host in progress, or the last one
    trace,        \* history: what the call in progress has dispatched and tested
    loads,        \* history: the number of load_source calls
    calls,        \* history: the number of calls of the host
    sets          \* history: the number of set_var calls of the host

vars == <<procedures, functions, ctx, heap, out, stack, call, trace, loads, calls, sets>>

\* the most load_source calls, host calls and host set_var calls of a run
MaxLoads == 1
MaxCalls == 1
MaxSets == 2
\* the most lines and conditions a call dispatches before the run is cut off:
\* more than any call that returns needs, so that only a loop that does not
\* end is cut
MaxSteps == 16

St == MkState(ctx, heap, out)

NoCall == [kind |-> "none", name |-> <<>>, state |-> "idle", exc |-> "", ret |-> None]

Idle == stack = <<>>

Top == stack[Len(stack)]

Pop(stk) == Mid(stk, 1, Len(stk) - 1)

\* an activation of run_lines(lines, i, end) on behalf of unit
RunFrame(unit, lines, i, end) ==
    [k |-> "run", unit |-> unit, lines |-> lines, i |-> i, end |-> end]

\* a loop of _exec_while_block or _exec_do_block between two passes
LoopFrame(unit, lines, header, cond_text, block_start, block_end) ==
    [k |-> "loop", unit |-> unit, lines |-> lines, header |-> header,
     cond_text |-> cond_text, block_start |-> block_start, block_end |-> block_end]

\* call_sub or call_function waiting for its run_lines
CallFrame(kind, name) == [k |-> "call", kind |-> kind, name |-> name]

\* the cursor of the innermost run_lines moves to i
Advance(stk, i) == [stk EXCEPT ![Len(stk)].i = i]

LineEvent(unit, i) == [e |-> "line", unit |-> unit, i |-> i]
\* the If block b found for the header at i, and the value v of its condition
IfEvent(unit, i, end, b, v) ==
    [e |-> "if", unit |-> unit, i |-> i, end |-> end, then_end |-> b.then_end,
     else_index |-> b.else_index, end_if |-> b.end_if, v |-> v]
TestEvent(unit, i, v) == [e |-> "test", unit |-> unit, i |-> i, v |-> v]

\* the engine state becomes st
Engine(st) == ctx' = st.ctx /\ heap' = st.heap /\ out' = st.out

\* an exception leaves every activation: no run_lines, block handler or
\* call_sub catches it
\* call_sub, and exec_call around a method call: try ... except Exception.
\* An exception raised under a host method that exec_call has called ends
\* at that exec_call, which prints it and returns; p is the position of the
\* innermost such method among the activations, 0 when there is none
EventFrames(stk) == {p \in 1..Len(stk) : stk[p].k = "event"}
Caught(st, p) ==
    /\ Engine(Diag(st, "Error calling"))
    /\ stack' = Advance(SubSeq(stack, 1, p - 1), stack[p - 1].i + 1)
    /\ call' = call
Propagate(st, e) ==
    IF EventFrames(stack) # {} THEN Caught(st, SetMax(EventFrames(stack)))
    ELSE /\ Engine(st)
         /\ stack' = <<>>
         /\ call' = [call EXCEPT !.state = "raised", !.exc = e]

Init ==
    /\ procedures = <<>>
    /\ functions = <<>>
    /\ ctx = <<>>
    /\ heap = SchemaHeap
    /\ out = <<>>
    /\ stack = <<>>
    /\ call = NoCall
    /\ trace = <<>>
    /\ loads = 0
    /\ calls = 0
    /\ sets = 0

\* dict.get(name) of a store: <<>> stands for None, which `if not lines`
\* treats like an empty body
StoreGet(store, name) == IF MapHas(store, name) THEN MapGet(store, name) ELSE <<>>

\* the host loads a source text
Loaded(r) == procedures' = r.procedures /\ functions' = r.functions
LoadSource(source) ==
    /\ Idle /\ loads < MaxLoads
    /\ Loaded(load_source(procedures, functions, source))
    /\ loads' = loads + 1
    /\ UNCHANGED <<ctx, heap, out, stack, call, trace, calls, sets>>

\* the host binds a variable: ctx.set_var(name, value)
SetVar(name, value) ==
    /\ Idle /\ sets < MaxSets
    /\ ctx' = set_var(ctx, name, value)
    /\ sets' = sets + 1
    /\ UNCHANGED <<procedures, functions, heap, out, stack, call, trace, loads, calls>>

\* the host binds a text box: ctx.set_var(name, VBTextBox(widget))
BindTextBox(name, text) ==
    /\ Idle /\ sets < MaxSets
    /\ heap' = Append(heap, HostNode(text))
    /\ ctx' = set_var(ctx, name, RefV(Len(heap) + 1))
    /\ sets' = sets + 1
    /\ UNCHANGED <<procedures, functions, out, stack, call, trace, loads, calls>>

\* call_sub(name), up to the call of run_lines
call_sub(name) ==
    /\ Idle /\ calls < MaxCalls
    /\ calls' = calls + 1
    /\ trace' = <<>>
    /\ LET lines == StoreGet(procedures, name)
       IN  IF lines = <<>>
           THEN /\ call' = [kind |-> "sub", name |-> name, state |-> "returned",
                            exc |-> "", ret |-> None]
                /\ stack' = <<>>
           ELSE /\ call' = [kind |-> "sub", name |-> name, state |-> "running",
                            exc |-> "", ret |-> None]
                /\ stack' = <<CallFrame("sub", name),
                              RunFrame(<<"sub", name>>, lines, 0, Len(lines))>>
    /\ UNCHANGED <<procedures, functions, ctx, heap, out, loads, sets>>

\* call_function with the slot set to None before the body is looked up: a
\* faulty variant, under which the call of an unknown name binds the name
CallFunctionBindsFirst(name) ==
    /\ Idle /\ calls < MaxCalls
    /\ calls' = calls + 1
    /\ trace' = <<>>
    /\ ctx' = set_var(ctx, name, None)
    /\ IF StoreGet(functions, name) = <<>>
       THEN /\ call' = [kind |-> "function", name |-> name, state |-> "returned",
                        exc |-> "", ret |-> None]
            /\ out' = Append(out, [k |-> "print",
                                   text |-> Chars("[VB] Function ") \o name \o Chars(" not found")])
            /\ stack' = <<>>
       ELSE /\ call' = [kind |-> "function", name |-> name, state |-> "running",
                        exc |-> "", ret |-> None]
            /\ out' = out
            /\ stack' = <<CallFrame("function", name),
                          RunFrame(<<"function", name>>, StoreGet(functions, name), 0,
                                   Len(StoreGet(functions, name)))>>
    /\ UNCHANGED <<procedures, functions, heap, loads, sets>>

\* call_function(name), up to the call of run_lines
call_function(name) ==
    /\ Idle /\ calls < MaxCalls
    /\ calls' = calls + 1
    /\ trace' = <<>>
    /\ LET lines == StoreGet(functions, name)
       IN  IF lines = <<>>
           THEN /\ call' = [kind |-> "function", name |-> name, state |-> "returned",
                            exc |-> "", ret |-> None]
                /\ out' = Append(out, [k |-> "print",
                                       text |-> Chars("[VB] Function ") \o name \o Chars(" not found")])
                /\ stack' = <<>>
                /\ ctx' = ctx
           ELSE /\ call' = [kind |-> "function", name |-> name, state |-> "running",
                            exc |-> "", ret |-> None]
                /\ ctx' = set_var(ctx, name, None)
                /\ out' = out
                /\ stack' = <<CallFrame("function", name),
                              RunFrame(<<"function", name>>, lines, 0, Len(lines))>>
    /\ UNCHANGED <<procedures, functions, heap, loads, sets>>

\* run_lines is at a line: what it dispatches on
AtLine == stack # <<>> /\ Top.k = "run" /\ Top.i < Top.end /\ Len(trace) < MaxSteps
CurLine == Strip(Top.lines[Top.i + 1])
CurUpper == Upper(CurLine)

\* exec_line has returned or raised r
StatementDone(f, r) ==
    IF r.exc # "" THEN Propagate(r.st, r.exc)
    ELSE Engine(r.st) /\ stack' = Advance(stack, f.i + 1) /\ call' = call

\* the line is a plain statement for exec_line
AtStatement ==
    AtLine /\ ~IsIfHeader(CurUpper) /\ ~IsWhileHeader(CurUpper) /\ ~IsDoHeader(CurUpper)

\* the statement is Obj.Clear with Obj bound to a list box: exec_call calls
\* the method Clear of the VBListBox
ListBoxOf(mm) == get_var(ctx, mm.obj_name)
ClearsListBox(mm) ==
    /\ mm.ok /\ mm.meth_name = Chars("Clear") /\ mm.arg_str = <<>>
    /\ IsListBox(heap, ListBoxOf(mm))
AtListBoxClear ==
    /\ AtStatement
    /\ LineKind(CurUpper, IF "=" \in Range(CurLine) THEN find_assignment_equals(CurLine) ELSE 0) = "call"
    /\ ClearsListBox(MethodMatch(CurLine))

\* run_lines at a plain statement: exec_line(line); i += 1
exec_statement ==
    /\ AtStatement /\ ~AtListBoxClear
    /\ trace' = Append(trace, LineEvent(Top.unit, Top.i))
    /\ StatementDone(Top, exec_line(St, CurLine))
    /\ UNCHANGED <<procedures, functions, loads, calls, sets>>

\* _exec_if_block choosing the Else-range on a true condition and the
\* Then-range on a false one: a faulty variant
IfChosenInverted(f, b, c) ==
    /\ trace' = trace \o <<LineEvent(f.unit, f.i)>>
                      \o (IF c.exc = "" THEN <<IfEvent(f.unit, f.i, f.end, b, c.v)>> ELSE <<>>)
    /\ IF c.exc # "" THEN Propagate(c.st, c.exc)
       ELSE /\ Engine(c.st)
            /\ call' = call
            /\ stack' =
                 IF ~c.v
                 THEN Append(Advance(stack, b.end_if + 1),
                             RunFrame(f.unit, f.lines, b.then_start, b.then_end))
                 ELSE IF b.else_index # -1
                 THEN Append(Advance(stack, b.end_if + 1),
                             RunFrame(f.unit, f.lines, b.else_start, b.else_end))
                 ELSE Advance(stack, b.end_if + 1)

\* _exec_if_block on a matched block b once the condition is evaluated to c
IfChosen(f, b, c) ==
    /\ trace' = trace \o <<LineEvent(f.unit, f.i)>>
                      \o (IF c.exc = "" THEN <<IfEvent(f.unit, f.i, f.end, b, c.v)>> ELSE <<>>)
    /\ IF c.exc # "" THEN Propagate(c.st, c.exc)
       ELSE /\ Engine(c.st)
            /\ call' = call
            /\ stack' =
                 IF c.v
                 THEN Append(Advance(stack, b.end_if + 1),
                             RunFrame(f.unit, f.lines, b.then_start, b.then_end))
                 ELSE IF b.else_index # -1
                 THEN Append(Advance(stack, b.end_if + 1),
                             RunFrame(f.unit, f.lines, b.else_start, b.else_end))
                 ELSE Advance(stack, b.end_if + 1)

\* _exec_if_block without the test of depth after the scan: a faulty
\* variant, under which an If that is not closed evaluates its condition and
\* runs the lines up to the end of the range
IfFoundUnchecked(f, b) == IfChosen(f, b, eval_condition(St, b.cond_text))

\* _exec_if_block on the block b that the scan has found
IfFound(f, b) ==
    IF ~b.matched
    THEN /\ Engine(Diag(St, "[VB] Warning: unmatched If/End If"))
         /\ stack' = Advance(stack, b.j)
         /\ call' = call
         /\ trace' = Append(trace, LineEvent(f.unit, f.i))
    ELSE IfChosen(f, b, eval_condition(St, b.cond_text))

\* run_lines at an If header: i = _exec_if_block(lines, i, end).  The cursor
\* of the enclosing run_lines is set to the returned index at once; nothing
\* reads it while the chosen range runs
exec_if_block ==
    /\ AtLine /\ IsIfHeader(CurUpper)
    /\ IfFound(Top, IfBlock(Top.lines, Top.i, Top.end))
    /\ UNCHANGED <<procedures, functions, loads, calls, sets>>

\* _exec_while_block entering the body before the first evaluation of the
\* condition: a faulty variant, under which a loop whose condition is false
\* makes one pass
WhileFoundBodyFirst(f, sc) ==
    IF sc.depth # 0
    THEN /\ Engine(Diag(St, "[VB] Warning: unmatched While/Wend"))
         /\ stack' = Advance(stack, sc.j)
    ELSE /\ UNCHANGED <<ctx, heap, out>>
         /\ stack' = Advance(stack, sc.j)
                       \o <<LoopFrame(f.unit, f.lines, f.i, Strip(From(f.lines[f.i + 1], 5)),
                                      f.i + 1, sc.j - 1),
                            RunFrame(f.unit, f.lines, f.i + 1, sc.j - 1)>>

\* _exec_while_block once the scan has returned sc
WhileFound(f, sc) ==
    IF sc.depth # 0
    THEN /\ Engine(Diag(St, "[VB] Warning: unmatched While/Wend"))
         /\ stack' = Advance(stack, sc.j)
    ELSE /\ UNCHANGED <<ctx, heap, out>>
         /\ stack' = Append(Advance(stack, sc.j),
                            LoopFrame(f.unit, f.lines, f.i, Strip(From(f.lines[f.i + 1], 5)),
                                      f.i + 1, sc.j - 1))

\* run_lines at a While header: i = _exec_while_block(lines, i, end), up to
\* the first evaluation of the condition
exec_while_block ==
    /\ AtLine /\ ~IsIfHeader(CurUpper) /\ IsWhileHeader(CurUpper)
    /\ trace' = Append(trace, LineEvent(Top.unit, Top.i))
    /\ WhileFound(Top, WhileScan(Top.lines, Top.i + 1, Top.end, 1))
    /\ UNCHANGED <<procedures, functions, call, loads, calls, sets>>

\* _exec_do_block, Do While, returning the index of the footer instead of
\* the index after it: a faulty variant, under which run_lines is handed
\* the line Loop
DoWhileFoundAtFooter(f, pre) ==
    IF pre.depth # 0
    THEN /\ Engine(Diag(St, "[VB] Warning: unmatched Do/Loop"))
         /\ stack' = Advance(stack, pre.j)
    ELSE /\ UNCHANGED <<ctx, heap, out>>
         /\ stack' = Append(Advance(stack, pre.j - 1),
                            LoopFrame(f.unit, f.lines, f.i, Strip(From(Strip(f.lines[f.i + 1]), 8)),
                                      f.i + 1, pre.j - 1))

\* _exec_do_block, Do While, once the scan has returned pre
DoWhileFound(f, pre) ==
    IF pre.depth # 0
    THEN /\ Engine(Diag(St, "[VB] Warning: unmatched Do/Loop"))
         /\ stack' = Advance(stack, pre.j)
    ELSE /\ UNCHANGED <<ctx, heap, out>>
         /\ stack' = Append(Advance(stack, pre.j),
                            LoopFrame(f.unit, f.lines, f.i, Strip(From(Strip(f.lines[f.i + 1]), 8)),
                                      f.i + 1, pre.j - 1))

\* Do ... Loop While run as a pre-test loop: a faulty variant, under which
\* the condition is evaluated before the first pass
DoLoopTestFirst(f, loop_index, lc) ==
    /\ Engine(IF lc.supported THEN St
              ELSE Diag(St, "[VB] Only 'Loop While <cond>' supported (post-test)"))
    /\ stack' = Append(Advance(stack, loop_index + 1),
                       LoopFrame(f.unit, f.lines, f.i, lc.cond_text, f.i + 1, loop_index))

\* _exec_do_block, Do ... Loop While, with the footer at loop_index and its
\* condition lc
DoLoopFooter(f, loop_index, lc) ==
    /\ Engine(IF lc.supported THEN St
              ELSE Diag(St, "[VB] Only 'Loop While <cond>' supported (post-test)"))
    /\ stack' = Advance(stack, loop_index + 1)
                  \o <<LoopFrame(f.unit, f.lines, f.i, lc.cond_text, f.i + 1, loop_index),
                       RunFrame(f.unit, f.lines, f.i + 1, loop_index)>>

\* _exec_do_block, Do ... Loop While, once the scan has returned post
DoLoopFound(f, post) ==
    IF post.loop_index = -1
    THEN /\ Engine(Diag(St, "[VB] Warning: unmatched Do/Loop"))
         /\ stack' = Advance(stack, post.j)
    ELSE DoLoopFooter(f, post.loop_index, LoopCond(Strip(f.lines[post.loop_index + 1])))

\* run_lines at a Do header: i = _exec_do_block(lines, i, end), up to the
\* first evaluation of the condition (Do While) or up to the first pass
\* (Do ... Loop While)
exec_do_block ==
    /\ AtLine /\ ~IsIfHeader(CurUpper) /\ ~IsWhileHeader(CurUpper) /\ IsDoHeader(CurUpper)
    /\ trace' = Append(trace, LineEvent(Top.unit, Top.i))
    /\ IF StartsWith(CurUpper, Chars("DO WHILE"))
       THEN DoWhileFound(Top, DoScan(Top.lines, Top.i + 1, Top.end, 1))
       ELSE DoLoopFound(Top, DoPostScan(Top.lines, Top.i + 1, Top.end, 1))
    /\ UNCHANGED <<procedures, functions, call, loads, calls, sets>>

\* the condition of the loop f has been evaluated to c
LoopTested(f, c) ==
    IF c.exc # "" THEN Propagate(c.st, c.exc) /\ trace' = trace
    ELSE /\ Engine(c.st)
         /\ call' = call
         /\ trace' = Append(trace, TestEvent(f.unit, f.header, c.v))
         /\ stack' = IF c.v
                     THEN Append(stack, RunFrame(f.unit, f.lines, f.block_start, f.block_end))
                     ELSE Pop(stack)

\* a loop between two passes: while self._eval_condition(cond_text), and
\* `if not self._eval_condition(cond_text): break` of the post-test loop
loop_test ==
    /\ stack # <<>> /\ Top.k = "loop" /\ Len(trace) < MaxSteps
    /\ LoopTested(Top, eval_condition(St, Top.cond_text))
    /\ UNCHANGED <<procedures, functions, loads, calls, sets>>

\* run_lines returns: i >= end
run_return ==
    /\ stack # <<>> /\ Top.k = "run" /\ Top.i >= Top.end
    /\ stack' = Pop(stack)
    /\ UNCHANGED <<procedures, functions, ctx, heap, out, call, trace, loads, calls, sets>>

\* call_sub returns; call_function returns self.ctx.get_var(name)
call_return ==
    /\ stack # <<>> /\ Top.k = "call"
    /\ stack' = Pop(stack)
    /\ call' = [call EXCEPT !.state = "returned",
                            !.ret = IF Top.kind = "function" THEN get_var(ctx, Top.name) ELSE None]
    /\ UNCHANGED <<procedures, functions, ctx, heap, out, trace, loads, calls, sets>>

\* the host binds a list box whose row changes are handled by the Sub
\* handler_name: ctx.set_var(name, VBListBox(widget)) after
\* widget.currentRowChanged.connect(self._make_event_handler(handler_name))
BindListBox(name, handler_name) ==
    /\ Idle /\ sets < MaxSets
    /\ heap' = Append(heap, ListBoxNode(0, handler_name))
    /\ ctx' = set_var(ctx, name, RefV(Len(heap) + 1))
    /\ sets' = sets + 1
    /\ UNCHANGED <<procedures, functions, out, stack, call, trace, loads, calls>>

\* the method of a host object that exec_call has called, waiting for the
\* call_sub of its handler
EventFrame(name) == [k |-> "event", name |-> name]

\* Clear of a list box that has a current row: the widget loses the row and
\* emits currentRowChanged, and the handler calls call_sub(handler_name),
\* which runs the body, if there is one, before Clear returns
ClearEmits(f, id, lines) ==
    /\ heap' = [heap EXCEPT ![id].row = -1]
    /\ stack' = IF lines = <<>> THEN Advance(stack, f.i + 1)
                ELSE stack \o <<EventFrame(heap[id].handler_name),
                                RunFrame(<<"sub", heap[id].handler_name>>, lines, 0, Len(lines))>>

\* run_lines at the statement Obj.Clear on a list box: exec_line, exec_call,
\* getattr(obj, meth_name)()
ListBoxCleared(f, id) ==
    IF heap[id].row = -1
    THEN heap' = heap /\ stack' = Advance(stack, f.i + 1)
    ELSE ClearEmits(f, id, StoreGet(procedures, heap[id].handler_name))
exec_listbox_clear ==
    /\ AtListBoxClear
    /\ trace' = Append(trace, LineEvent(Top.unit, Top.i))
    /\ ListBoxCleared(Top, ListBoxOf(MethodMatch(CurLine)).id)
    /\ UNCHANGED <<procedures, functions, ctx, out, call, loads, calls, sets>>

\* the activations after the host method on top has returned to an exec_call
\* that starts its run_lines again from the first line: a faulty variant
EventReturnedToStart(stk) == Advance(Pop(stk), 0)

\* the activations after the host method on top has returned: exec_call and
\* exec_line return, and run_lines does i += 1
EventReturned(stk) == Advance(Pop(stk), Pop(stk)[Len(Pop(stk))].i + 1)

\* the call_sub of the handler has returned, and then the host method
event_return ==
    /\ stack # <<>> /\ Top.k = "event"
    /\ stack' = EventReturned(stack)
    /\ UNCHANGED <<procedures, functions, ctx, heap, out, call, trace, loads, calls, sets>>

\* eval_expr(text) has returned or raised r
Evaluated(text, r) ==
    /\ Engine(r.st)
    /\ call' = [kind |-> "expr", name |-> text,
                state |-> IF r.exc = "" THEN "returned" ELSE "raised",
                exc |-> r.exc, ret |-> r.v]

\* the host evaluates an expression: eval_expr(text)
EvalExpr(text) ==
    /\ Idle /\ calls < MaxCalls
    /\ calls' = calls + 1
    /\ trace' = <<>>
    /\ Evaluated(text, eval_expr(St, text))
    /\ UNCHANGED <<procedures, functions, stack, loads, sets>>

\* _eval_condition(text) has returned or raised r
Conditioned(text, r) ==
    /\ Engine(r.st)
    /\ call' = [kind |-> "cond", name |-> text,
                state |-> IF r.exc = "" THEN "returned" ELSE "raised",
                exc |-> r.exc, ret |-> BoolV(r.v)]

\* the host evaluates a condition: _eval_condition(text)
EvalCondition(text) ==
    /\ Idle /\ calls < MaxCalls
    /\ calls' = calls + 1
    /\ trace' = <<>>
    /\ Conditioned(text, eval_condition(St, text))
    /\ UNCHANGED <<procedures, functions, stack, loads, sets>>

\* the tree and the list the host holds for its calls of the path accessor
Tree == RefV(Len(SchemaHeap) + 1)
List == RefV(Len(SchemaHeap) + 2)

SetEvent(path, value, exc) == [e |-> "set", path |-> path, value |-> value, exc |-> exc]
GetEvent(path, ret, exc) == [e |-> "get", path |-> path, ret |-> ret, exc |-> exc]

\* json_set(tree, path, value) has returned or raised r
JsonSetReturned(path, value, r) ==
    /\ heap' = r.h
    /\ trace' = Append(trace, SetEvent(path, value, r.exc))

\* the host calls VBJsonRuntime.json_set(tree, path, value)
JsonSet(path, value) ==
    /\ Idle /\ sets < MaxSets
    /\ sets' = sets + 1
    /\ JsonSetReturned(path, value, json_set(heap, Tree, path, value))
    /\ UNCHANGED <<procedures, functions, ctx, out, stack, call, loads, calls>>

\* the host calls VBJsonRuntime.json_get(tree, path)
JsonGet(path) ==
    /\ Idle /\ calls < MaxCalls
    /\ calls' = calls + 1
    /\ trace' = Append(trace, GetEvent(path, json_get(heap, Tree, path).v,
                                       json_get(heap, Tree, path).exc))
    /\ UNCHANGED <<procedures, functions, ctx, heap, out, stack, call, loads, sets>>

(***************************************************************************)
(* The scripts the host loads and the calls it makes.                      *)
(***************************************************************************)

\* nested If blocks with and without Else
SrcNest ==
    "Sub Nest()\nIf a = 1 Then\nt = 1\nIf b = 1 Then\nu = 1\nElse\nu = 2\nEnd If\nv = 1\nElse\nw = 1\nEnd If\nIf b = 0 Then\nn = 1\nEnd If\nz = 1\nEnd Sub\n"

\* the loops of btnSave_Click, and loops whose condition is false on entry
SrcLoops ==
    "Sub Pre()\nDo While a < 2\na = a + 1\nLoop\np = 1\nEnd Sub\nSub Post()\nDo\na = a + 1\nLoop While a < 2\np = 1\nEnd Sub\nSub Wh()\nWhile a < 2\na = a + 1\nWend\nEnd Sub\nSub PreFalse()\nDo While false\nn = 1\nLoop\nEnd Sub\nSub PostFalse()\nDo\nn = 1\nLoop While false\nEnd Sub\n"

\* statements that fault between two assignments
SrcFault ==
    "Sub Fault()\nx = 1\ny = JsonGet(q, \"a\")\nz = 2\nEnd Sub\nSub Fault2()\nx = 1\ny = JsonParse(\"{\")\nz = 2\nEnd Sub\n"

\* a Function, a Sub that uses it in expressions, and a Sub named Demo
SrcFunc ==
    "Function F()\nF = \"hi\"\nEnd Function\nSub UseF()\nm = F() & \"!\"\nMsgBox F()\nEnd Sub\nSub Demo()\ny = 1\nEnd Sub\n"

\* GetGreeting and its use in Form_Load
SrcGreeting ==
    "Function GetGreeting()\n    GetGreeting = \"Hello, \" & txtName.Text\nEnd Function\nSub Form_Load()\n    MsgBox GetGreeting() & _\n        \"!\"\nEnd Sub\n"

Sources == {SrcNest, SrcLoops, SrcFault, SrcFunc, SrcGreeting}

\* the names the host calls: the names as written, in other letter cases, and
\* a name no source defines
SubNames == {"Nest", "Pre", "Post", "Wh", "PreFalse", "PostFalse", "Fault", "Fault2",
             "UseF", "Demo", "demo", "DEMO", "Form_Load", "Missing"}
FuncNames == {"F", "f", "GetGreeting", "GETGREETING", "Missing"}

\* the variables the host binds and their values
VarNames == {"a", "b"}
VarValues == {IntV(0), IntV(1)}

Next ==
    \/ \E s \in Sources : LoadSource(Chars(s))
    \/ \E n \in VarNames, v \in VarValues : SetVar(Chars(n), v)
    \/ BindTextBox(Chars("txtName"), Chars("Ann"))
    \/ \E n \in SubNames : call_sub(Chars(n))
    \/ \E n \in FuncNames : call_function(Chars(n))
    \/ exec_statement
    \/ exec_if_block
    \/ exec_while_block
    \/ exec_do_block
    \/ loop_test
    \/ run_return
    \/ call_return

Spec == Init /\ [][Next]_vars

(***************************************************************************)
(* The expression evaluator on its own: the host evaluates expressions     *)
(* over numeric literals and quoted literals.                              *)
(***************************************************************************)

\* the numeric literals: integers and halves
Literals == {"0", "2", "3", "4", "5", "0.5", "3.5"}
Operators == {"+", "-", "*", "/"}
\* the contents of the quoted literals
Contents == {"3", "+", "s", "t"}

\* the text of a op b, and of "s" & "t"
BinaryText(a, op, b) == Chars(a) \o <<op>> \o Chars(b)
ConcatLiterals(x, y) == <<"\"">> \o Chars(x) \o Chars("\" & \"") \o Chars(y) \o <<"\"">>

NextExpr ==
    \/ \E a \in Literals, op \in Operators, b \in Literals : EvalExpr(BinaryText(a, op, b))
    \/ \E x \in Contents, y \in Contents : EvalExpr(ConcatLiterals(x, y))

SpecExpr == Init /\ [][NextExpr]_vars

(***************************************************************************)
(* The path accessor on its own: the host holds an empty mapping and a     *)
(* one-element list, and calls json_set and json_get on the mapping.       *)
(***************************************************************************)

InitJson ==
    /\ procedures = <<>>
    /\ functions = <<>>
    /\ ctx = <<>>
    /\ heap = SchemaHeap \o <<DictNode(<<>>), ListNode(<<IntV(0)>>)>>
    /\ out = <<>>
    /\ stack = <<>>
    /\ call = NoCall
    /\ trace = <<>>
    /\ loads = 0
    /\ calls = 0
    /\ sets = 0

Paths == {"a", "a.b", "a.b.c", "a.b[0].c", "l[0]", "l"}
Values == {IntV(1), IntV(2), List}

NextJson ==
    \/ \E p \in Paths, v \in Values : JsonSet(Chars(p), v)
    \/ \E p \in Paths : JsonGet(Chars(p))

SpecJson == InitJson /\ [][NextJson]_vars

(***************************************************************************)
(* The condition evaluator on its own: the host evaluates comparisons of   *)
(* numbers, of quoted numbers and of quoted words.                         *)
(***************************************************************************)

NumberTexts == {"10", "9", "9.5"}
WordTexts == {"ab", "b"}
Relations == {"=", "<>", "<=", ">=", "<", ">"}

\* an operand is <<quoted, content>>: a number, a quoted number or a quoted word
Operands == ({FALSE, TRUE} \X NumberTexts) \cup ({TRUE} \X WordTexts)
OperandText(o) == IF o[1] THEN <<"\"">> \o Chars(o[2]) \o <<"\"">> ELSE Chars(o[2])

\* the text of l op r, with spaces around the operator and without
SpacedText(l, op, r) == OperandText(l) \o <<" ">> \o Chars(op) \o <<" ">> \o OperandText(r)
TightText(l, op, r) == OperandText(l) \o Chars(op) \o OperandText(r)

NextCond ==
    \/ \E l \in Operands, op \in Relations, r \in Operands : EvalCondition(SpacedText(l, op, r))
    \/ \E l \in NumberTexts, op \in Relations, r \in NumberTexts :
          EvalCondition(TightText(<<FALSE, l>>, op, <<FALSE, r>>))

SpecCond == Init /\ [][NextCond]_vars

(***************************************************************************)
(* The engine on a second set of scripts: Functions that do not assign     *)
(* their name, the scenarios of the specification, loops with other        *)
(* footers, statements that begin with the letters of a keyword, and an If *)
(* that is not closed.                                                     *)
(***************************************************************************)

\* a Function with an empty body and one whose body never assigns its name
SrcResult ==
    "Function a()\nEnd Function\nFunction n()\nx = 1\nEnd Function\nFunction Two()\nTwo = 1\nTwo = 2\nEnd Function\n"

\* the scenario of Sub Demo
SrcDemo ==
    "Sub Demo()\nIf x = 1 Then\ny = \"one\"\nElse\ny = \"other\"\nEnd If\nEnd Sub\n"

\* the scenario of the While loop, and the loop to a bound the host binds
SrcCount ==
    "Sub Count3()\nDim i\ni = 0\nWhile i < 3\ni = i + 1\nWend\nEnd Sub\nSub CountN()\nDim i\ni = 0\nWhile i < n\ni = i + 1\nWend\nEnd Sub\n"

\* Do loops whose footer is not Loop While
SrcFooters ==
    "Sub Until()\nDo\nk = 1\nLoop Until c\nEnd Sub\nSub Bare()\nDo\nk = 1\nLoop\nEnd Sub\n"

\* statements whose first identifier begins with the letters of a keyword
SrcWords ==
    "Sub Flag()\nDone = 1\nz = 1\nEnd Sub\nSub Counter()\nDo\nLoopCount = 1\nLoop While false\nz = 1\nEnd Sub\n"

\* an If header with no End If
SrcBroken ==
    "Sub Broken()\nx = 1\nIf a < \"s\" Then\ny = 1\nz = 1\nEnd Sub\n"

RunSources == {SrcResult, SrcDemo, SrcCount, SrcFooters, SrcWords, SrcBroken}

RunSubNames == {"Demo", "Count3", "CountN", "Until", "Bare", "Flag", "Counter", "Broken", "Missing"}
RunFuncNames == {"a", "n", "Two", "Missing"}

\* the variables the host binds: the slots of the Functions a and n, the
\* bound of CountN, and a variable named False
RunBindings == {<<"a", IntV(1)>>, <<"n", IntV(0)>>, <<"n", IntV(2)>>, <<"False", IntV(1)>>}

\* the steps of a call in progress
Running ==
    \/ exec_statement
    \/ exec_if_block
    \/ exec_while_block
    \/ exec_do_block
    \/ loop_test
    \/ run_return
    \/ call_return

NextRun ==
    \/ \E s \in RunSources : LoadSource(Chars(s))
    \/ \E b \in RunBindings : SetVar(Chars(b[1]), b[2])
    \/ \E f \in RunSubNames : call_sub(Chars(f))
    \/ \E f \in RunFuncNames : call_function(Chars(f))
    \/ Running

SpecRun == Init /\ [][NextRun]_vars

(***************************************************************************)
(* ReportsForm.StatsVBInterpreter: the interpreter of the reports form,    *)
(* which puts StatsPrepare and StatsGet before the built-ins.              *)
(***************************************************************************)

\* d.get(key, {}).get(...) reads: the value d is asked for key.  A value that
\* is no dict has no get: AttributeError
NoGet(h, d) == ~IsDict(h, d)
HasKey(h, d, key) == DictHas(h[d.id], Chars(key))
KeyOf(h, d, key) == DictGet(h[d.id], Chars(key))

\* get_stats_value(app_data, analysis_id, key): [v, exc]
StatsSummaryValue(h, summary, key) ==
    IF NoGet(h, summary) THEN [v |-> None, exc |-> "AttributeError"]
    ELSE IF DictHas(h[summary.id], key) THEN [v |-> DictGet(h[summary.id], key), exc |-> ""]
    ELSE [v |-> FloatV(0, 1), exc |-> ""]
StatsEntryValue(h, entry, key) ==
    IF ~IsDict(h, entry) THEN [v |-> FloatV(0, 1), exc |-> ""]
    ELSE IF ~HasKey(h, entry, "type") \/ KeyOf(h, entry, "type") # StrV(Chars("five_number"))
    THEN [v |-> FloatV(0, 1), exc |-> ""]
    ELSE IF ~HasKey(h, entry, "summary") THEN [v |-> FloatV(0, 1), exc |-> ""]
    ELSE StatsSummaryValue(h, KeyOf(h, entry, "summary"), key)
StatsAnalysisValue(h, analysis, analysis_id, key) ==
    IF NoGet(h, analysis) THEN [v |-> None, exc |-> "AttributeError"]
    ELSE IF ~DictHas(h[analysis.id], analysis_id) THEN [v |-> FloatV(0, 1), exc |-> ""]
    ELSE StatsEntryValue(h, DictGet(h[analysis.id], analysis_id), key)
get_stats_value(h, app_data, analysis_id, key) ==
    IF NoGet(h, app_data) THEN [v |-> None, exc |-> "AttributeError"]
    ELSE IF ~HasKey(h, app_data, "analysis") THEN [v |-> FloatV(0, 1), exc |-> ""]
    ELSE StatsAnalysisValue(h, KeyOf(h, app_data, "analysis"), analysis_id, key)

\* _find_account_id over the list accounts: the id of the first account that
\* is a dict with this code, None when there is none or it has no id
AccountMatches(h, a, code) ==
    IsDict(h, a) /\ HasKey(h, a, "code") /\ KeyOf(h, a, "code") = StrV(code)
AccountIdIn(h, accounts, code) ==
    IF \E k \in 1..Len(accounts) : AccountMatches(h, accounts[k], code)
    THEN LET a == accounts[SetMin({k \in 1..Len(accounts) : AccountMatches(h, accounts[k], code)})]
         IN  IF HasKey(h, a, "id") THEN KeyOf(h, a, "id") ELSE None
    ELSE None

\* the postings of the account: those that are dicts with this accountId
PostingsOf(h, postings, acc_id) ==
    {k \in 1..Len(postings) :
        /\ IsDict(h, postings[k]) /\ HasKey(h, postings[k], "accountId")
        /\ KeyOf(h, postings[k], "accountId") = acc_id}

\* for x in v: a list gives its elements; a dict gives its keys and a text
\* its characters, none of which is a dict; no other value can be iterated
Iterable(h, v) == v.t = "str" \/ IsList(h, v) \/ IsDict(h, v)
Elements(h, v) == IF IsList(h, v) THEN h[v.id].elems ELSE <<>>

\* run_stats_analysis(app_data, account_code, ...): [id, exc], id = None
\* when the series of the account is empty.  The summary of a series that
\* has entries is left out: the ledger that the host binds holds no posting
StatsOfAccount(h, ledger, acc_id) ==
    IF ~HasKey(h, ledger, "postings") THEN [id |-> None, exc |-> ""]
    ELSE IF ~Iterable(h, KeyOf(h, ledger, "postings")) THEN [id |-> None, exc |-> "TypeError"]
    ELSE CASE PostingsOf(h, Elements(h, KeyOf(h, ledger, "postings")), acc_id) = {}
                -> [id |-> None, exc |-> ""]
StatsOfLedger(h, ledger, code) ==
    IF NoGet(h, ledger) THEN [id |-> None, exc |-> "AttributeError"]
    ELSE IF ~HasKey(h, ledger, "accounts") THEN [id |-> None, exc |-> ""]
    ELSE IF ~Iterable(h, KeyOf(h, ledger, "accounts")) THEN [id |-> None, exc |-> "TypeError"]
    ELSE IF AccountIdIn(h, Elements(h, KeyOf(h, ledger, "accounts")), code) = None
    THEN [id |-> None, exc |-> ""]
    ELSE StatsOfAccount(h, ledger, AccountIdIn(h, Elements(h, KeyOf(h, ledger, "accounts")), code))
run_stats_analysis(h, app_data, code) ==
    IF NoGet(h, app_data) THEN [id |-> None, exc |-> "AttributeError"]
    ELSE IF ~HasKey(h, app_data, "ledger") THEN [id |-> None, exc |-> ""]
    ELSE StatsOfLedger(h, KeyOf(h, app_data, "ledger"), code)

\* str(args[k]) if len(args) > k else "" (k counted from 0)
ArgText(h, args, k) == IF Len(args) > k THEN PyStr(h, args[k + 1]) ELSE <<>>

\* return analysis_id or ""
PrepareResult(st, r) ==
    IF r.exc # "" THEN Raise(st, r.exc)
    ELSE Ret(st, IF r.id = None THEN StrV(<<>>) ELSE r.id)

\* the last line of StatsVBInterpreter._call_function returning None without
\* calling the base class: a faulty variant, under which the built-ins are
\* lost and an unknown name is not reported
StatsFallbackSilent(st, name, args) == Ret(st, None)

\* return super()._call_function(name, args)
StatsFallback(st, name, args) == CallFunction(st, name, args)

\* StatsVBInterpreter._call_function(name, args) with upper = name.upper()
StatsDispatch(st, upper, name, args) ==
    IF upper = Chars("STATSPREPARE")
    THEN IF ArgText(st.heap, args, 0) = <<>> THEN Ret(st, StrV(<<>>))
         ELSE PrepareResult(st, run_stats_analysis(st.heap, get_var(st.ctx, Chars("AppData")),
                                                   ArgText(st.heap, args, 0)))
    ELSE IF upper = Chars("STATSGET")
    THEN GetResult(st, get_stats_value(st.heap, get_var(st.ctx, Chars("AppData")),
                                       ArgText(st.heap, args, 0), ArgText(st.heap, args, 1)))
    ELSE StatsFallback(st, name, args)
StatsCallFunction(st, name, args) == StatsDispatch(st, Upper(name), name, args)

\* the host has called _call_function(name, args) of the reports form
ArgsEvent(args) == [e |-> "args", args |-> args]
StatsCalled(name, r) ==
    /\ Engine(r.st)
    /\ call' = [kind |-> "stats", name |-> name,
                state |-> IF r.exc = "" THEN "returned" ELSE "raised",
                exc |-> r.exc, ret |-> r.v]

\* the evaluation of an expression calls self._call_function(name, args)
StatsCall(name, args) ==
    /\ Idle /\ calls < MaxCalls
    /\ calls' = calls + 1
    /\ trace' = <<ArgsEvent(args)>>
    /\ StatsCalled(name, StatsCallFunction(St, name, args))
    /\ UNCHANGED <<procedures, functions, stack, loads, sets>>

\* the names called: the two of the reports form in several letter cases,
\* built-ins of the base class, and names that nothing defines
StatsNames == {"StatsPrepare", "STATSPREPARE", "statsprepare", "StatsGet", "statsGET",
               "JsonNew", "jsonget", "JSONPARSE", "Foo", "StatsGets", "Stats"}

\* the argument lists of the calls
StatsArgs == {<<>>, <<StrV(<<>>)>>, <<StrV(Chars("A"))>>,
              <<StrV(Chars("A")), StrV(Chars("min"))>>,
              <<StrV(Chars("Root"))>>, <<RefV(1), StrV(Chars("ledger"))>>}

\* what the host binds AppData to: the application data with an empty
\* ledger, and a value that is no dict
StatsAppData == {RefV(1), IntV(1)}

NextStats ==
    \/ \E v \in StatsAppData : SetVar(Chars("AppData"), v)
    \/ \E n \in StatsNames, a \in StatsArgs : StatsCall(Chars(n), a)

SpecStats == Init /\ [][NextStats]_vars

(***************************************************************************)
(* exec_line on declarations: the host binds some names and a Dim          *)
(* statement is executed.                                                  *)
(***************************************************************************)

\* exec_line(line) has returned or raised r
LineExecuted(line, r) ==
    /\ Engine(r.st)
    /\ call' = [kind |-> "line", name |-> line,
                state |-> IF r.exc = "" THEN "returned" ELSE "raised",
                exc |-> r.exc, ret |-> None]

\* a statement is executed: exec_line(line)
ExecLine(line) ==
    /\ Idle /\ calls < MaxCalls
    /\ calls' = calls + 1
    /\ trace' = <<>>
    /\ LineExecuted(line, exec_line(St, line))
    /\ UNCHANGED <<procedures, functions, stack, loads, sets>>

\* the declarations executed, each with the names it lists
Decls == {<<"Dim a", {"a"}>>, <<"Dim a, b", {"a", "b"}>>, <<"Dim b,c ,a", {"a", "b", "c"}>>,
          <<"dim a As Integer, d", {"a", "d"}>>, <<"Dim c, c", {"c"}>>, <<"DIM d,", {"d"}>>}

\* the names the host binds before, and their values
DimBound == {"a", "b", "A"}
DimValues == {IntV(1), StrV(Chars("s")), None}

NextDim ==
    \/ \E n \in DimBound, v \in DimValues : SetVar(Chars(n), v)
    \/ \E d \in Decls : ExecLine(Chars(d[1]))

SpecDim == Init /\ [][NextDim]_vars

(***************************************************************************)
(* _normalize_lines on bodies made of a few physical lines.                *)
(***************************************************************************)

\* the logical lines that _normalize_lines has returned
LinesEvent(lines) == [e |-> "lines", lines |-> lines]

\* load_source normalizes a body: self._normalize_lines(body)
Normalize(body) ==
    /\ Idle /\ calls < MaxCalls
    /\ calls' = calls + 1
    /\ trace' = <<LinesEvent(normalize_lines(body))>>
    /\ call' = [kind |-> "normalize", name |-> body, state |-> "returned",
                exc |-> "", ret |-> None]
    /\ UNCHANGED <<procedures, functions, ctx, heap, out, stack, loads, sets>>

\* the physical lines of the bodies: a marker alone, code with the marker,
\* comments with and without it, code with an inline comment, a blank line
PhysicalLines == {"_", "a = 1 _", "' c _", "' c", "  b  ' t", " "}

\* the most physical lines of a body
MaxBodyLines == 3

\* the text of the lines ls, each ended by a line feed
RECURSIVE BodyOf(_)
BodyOf(ls) == IF ls = <<>> THEN <<>> ELSE Chars(Head(ls)) \o <<"\n">> \o BodyOf(Tail(ls))

NextNorm ==
    \E n \in 1..MaxBodyLines : \E ls \in [1..n -> PhysicalLines] : Normalize(BodyOf(ls))

SpecNorm == Init /\ [][NextNorm]_vars

(***************************************************************************)
(* The engine re-entered from a host method: list boxes whose row change   *)
(* is handled by a Sub, and Subs that clear them.                          *)
(***************************************************************************)

\* Subs that clear a list box, and the handlers: one with a loop, one that
\* faults, one that clears a list box itself
SrcEvents ==
    "Sub Outer()\nIf n <> 1 Then\nlst.Clear\nb = n\nEnd If\nc = 1\nEnd Sub\nSub lst_Change()\nWhile n < 2\nn = n + 1\nWend\na = 2\nEnd Sub\nSub Twice()\nlst.Clear\nlst.Clear\nd = 1\nEnd Sub\nSub bad_Change()\ny = JsonParse(\"{\")\nz = 2\nEnd Sub\nSub top_Change()\nlst.Clear\nt = 1\nEnd Sub\nSub Deep()\ntop.Clear\ne = 1\nEnd Sub\n"

\* the list boxes the host binds, each with the name of its handler
ListBoxes == {<<"lst", "lst_Change">>, <<"lst", "bad_Change">>, <<"lst", "Missing">>,
              <<"top", "top_Change">>}

\* the Subs the host calls
EventSubNames == {"Outer", "Twice", "Deep"}

NextEvents ==
    \/ LoadSource(Chars(SrcEvents))
    \/ \E b \in ListBoxes : BindListBox(Chars(b[1]), Chars(b[2]))
    \/ \E v \in {IntV(0), IntV(1)} : SetVar(Chars("n"), v)
    \/ \E f \in EventSubNames : call_sub(Chars(f))
    \/ exec_statement
    \/ exec_listbox_clear
    \/ exec_if_block
    \/ exec_while_block
    \/ loop_test
    \/ run_return
    \/ event_return
    \/ call_return

SpecEvents == Init /\ [][NextEvents]_vars

(***************************************************************************)
(* The block structure of a body as its text gives it: a closing line      *)
(* closes the nearest header that is still open.  These definitions read   *)
(* the text by counting; they do not use the scans of the executor.        *)
(***************************************************************************)

\* the body of a unit, and its lines as the executor compares them
UnitLines(unit) == StoreGet(IF unit[1] = "sub" THEN procedures ELSE functions, unit[2])
UpperLines(lines) == Tup([k \in 1..Len(lines) |-> Upper(Strip(lines[k]))])

\* the number of If headers still open after line j, counting the header at
\* i (u holds the lines in upper case; indices are 0-based)
OpenIfs(u, i, j) ==
    1 + Cardinality({k \in (i + 1)..j : IsIfHeader(u[k + 1])})
      - Cardinality({k \in (i + 1)..j : u[k + 1] = Chars("END IF")})

\* the End If that closes the header at i, -1 when there is none before end
ClosingEndIf(u, i, end) ==
    IF \E j \in (i + 1)..(end - 1) : OpenIfs(u, i, j) = 0
    THEN SetMin({j \in (i + 1)..(end - 1) : OpenIfs(u, i, j) = 0})
    ELSE -1

\* the Else of the header at i: the first Else before its End If at which
\* no other header is open, -1 when there is none
OwnElse(u, i, end) ==
    IF \E j \in (i + 1)..(ClosingEndIf(u, i, end) - 1) :
          u[j + 1] = Chars("ELSE") /\ OpenIfs(u, i, j) = 1
    THEN SetMin({j \in (i + 1)..(ClosingEndIf(u, i, end) - 1) :
                    u[j + 1] = Chars("ELSE") /\ OpenIfs(u, i, j) = 1})
    ELSE -1

\* the number of Do headers still open after line j, counting the header at h
OpenDos(u, h, j) ==
    1 + Cardinality({k \in (h + 1)..j : IsDoHeader(u[k + 1])})
      - Cardinality({k \in (h + 1)..j : IsLoopFooter(u[k + 1])})

\* the Loop footer that closes the Do header at h, -1 when there is none
ClosingLoop(u, h) ==
    IF \E j \in (h + 1)..(Len(u) - 1) : OpenDos(u, h, j) = 0
    THEN SetMin({j \in (h + 1)..(Len(u) - 1) : OpenDos(u, h, j) = 0})
    ELSE -1

IsPreTest(u, h) == StartsWith(u[h + 1], Chars("DO WHILE"))
IsPostTest(u, h) == IsDoHeader(u[h + 1]) /\ ~IsPreTest(u, h)

\* the position after p at which the header of the event at p is evaluated
\* again, Len(trace) + 1 when it is not
NextPass(p) ==
    IF \E q \in (p + 1)..Len(trace) : trace[q].e = trace[p].e /\ trace[q].i = trace[p].i
    THEN SetMin({q \in (p + 1)..Len(trace) : trace[q].e = trace[p].e /\ trace[q].i = trace[p].i})
    ELSE Len(trace) + 1

(***************************************************************************)
(* C1.  If / Else runs exactly one range.                                  *)
(***************************************************************************)

\* the range [lo, hi) that the event ev of a block with End If at e and Else
\* at el (-1: none) must run: lo = hi when it must run nothing
ChosenLo(ev, e, el) == IF ev.v THEN ev.i + 1 ELSE IF el # -1 THEN el + 1 ELSE e
ChosenHi(ev, e, el) == IF ev.v THEN (IF el # -1 THEN el ELSE e) ELSE e

\* between the evaluation at p and the next one of the same header, every
\* line dispatched inside the block lies in the range [lo, hi), and a
\* non-empty range is entered at once
RunsOnly(p, ev, e, lo, hi) ==
    /\ \A q \in (p + 1)..(NextPass(p) - 1) :
          (trace[q].unit = ev.unit /\ ev.i < trace[q].i /\ trace[q].i < e)
              => (lo <= trace[q].i /\ trace[q].i < hi)
    /\ (lo < hi /\ p < Len(trace)) => trace[p + 1] = LineEvent(ev.unit, lo)

OneRangeAt(p, ev, e, el) ==
    e # -1 => RunsOnly(p, ev, e, ChosenLo(ev, e, el), ChosenHi(ev, e, el))

OneRangeIn(p, u) ==
    OneRangeAt(p, trace[p], ClosingEndIf(u, trace[p].i, trace[p].end),
               OwnElse(u, trace[p].i, trace[p].end))

\* C1: for every well-formed If block whose condition run_lines has
\* evaluated, the lines dispatched inside the block until the header is met
\* again all lie in one range: the Then-range when the condition was true,
\* the Else-range when it was false and there is an Else, no line when it was
\* false and there is no Else; and the range chosen, when it has lines, is
\* entered at once (its first line is the next one dispatched)
IfRunsExactlyOneRange ==
    \A p \in 1..Len(trace) :
        (trace[p].e = "if") => OneRangeIn(p, UpperLines(UnitLines(trace[p].unit)))

\* a call that has run a block with an Else on a true condition and a block
\* with an Else on a false condition, each followed by a line of its range
IfBothWaysSeen ==
    /\ call.state = "returned"
    /\ \E p \in 1..Len(trace), q \in 1..Len(trace) :
          /\ trace[p].e = "if" /\ trace[p].else_index # -1 /\ trace[p].v
          /\ trace[q].e = "if" /\ trace[q].else_index # -1 /\ ~trace[q].v
          /\ p < Len(trace) /\ trace[p + 1] = LineEvent(trace[p].unit, trace[p].i + 1)
          /\ q < Len(trace) /\ trace[q + 1] = LineEvent(trace[q].unit, trace[q].else_index + 1)

(***************************************************************************)
(* C5.  Nested If blocks match depth for depth.                            *)
(***************************************************************************)

\* the lines of the Then-range of the block (header i, End If e, Else el)
\* that follow the End If of a nested block and belong to no nested block
\* and to no loop
AfterNested(u, i, e, el) ==
    {k \in (i + 1)..((IF el # -1 THEN el ELSE e) - 1) :
        /\ OpenIfs(u, i, k) = 1 /\ ~IsIfHeader(u[k + 1]) /\ u[k + 1] # Chars("END IF")
        /\ \E j \in (i + 1)..(k - 1) : u[j + 1] = Chars("END IF")
        /\ \A j \in (i + 1)..(k - 1) : ~IsDoHeader(u[j + 1]) /\ ~IsWhileHeader(u[j + 1])}

Dispatched(p, unit, k) ==
    \E q \in (p + 1)..(NextPass(p) - 1) : trace[q] = LineEvent(unit, k)

NestedAt(p, ev, u, e, el) ==
    /\ ev.end_if = e
    /\ ev.else_index = el
    /\ \A k \in AfterNested(u, ev.i, e, el) :
          /\ Dispatched(p, ev.unit, k) => ev.v
          /\ (ev.v /\ call.state = "returned") => Dispatched(p, ev.unit, k)

NestedIn(p, u) ==
    NestedAt(p, trace[p], u, ClosingEndIf(u, trace[p].i, trace[p].end),
             OwnElse(u, trace[p].i, trace[p].end))

\* C5: for every If block run_lines has evaluated, the End If that
\* _exec_if_block found is the one that closes the header when every End If
\* closes the nearest open header, the Else it found is the one at which no
\* nested header is open (an Else inside a nested block is not the outer
\* block's), and the lines of the Then-range that follow a nested End If
\* are dispatched only if the condition was true, and are dispatched when it
\* was true and the call has returned
NestedIfsMatchByDepth ==
    \A p \in 1..Len(trace) :
        (trace[p].e = "if") => NestedIn(p, UpperLines(UnitLines(trace[p].unit)))

\* a call has returned after running a line that follows a nested End If
\* inside the Then-range of an outer block that has an Else of its own
NestedIfSeen ==
    /\ call.state = "returned"
    /\ \E p \in 1..Len(trace), q \in 1..Len(trace) :
          /\ trace[p].e = "if" /\ trace[p].v /\ trace[p].else_index # -1
          /\ trace[q].e = "if" /\ trace[q].else_index # -1
          /\ trace[p].i < trace[q].i /\ trace[q].end_if < trace[p].else_index
          /\ \E r \in (q + 1)..Len(trace) :
                /\ trace[r].e = "line"
                /\ trace[q].end_if < trace[r].i /\ trace[r].i < trace[p].else_index

(***************************************************************************)
(* C6.  Pre-test and post-test Do loops.                                   *)
(***************************************************************************)

\* the event at p is followed by an event
HasNext(p) == p < Len(trace)

\* the event at p is the evaluation of the condition of the loop at h
IsTestOf(p, unit, h) == trace[p].e = "test" /\ trace[p].unit = unit /\ trace[p].i = h

\* the event at p is the dispatch of a line of the body (h, c) of the loop
InBody(p, unit, h, c) == trace[p].unit = unit /\ h < trace[p].i /\ trace[p].i < c

\* the first event of a pass of the loop with header h and footer c
FirstOfPass(unit, h, c) == IF h + 1 < c THEN LineEvent(unit, h + 1) ELSE TestEvent(unit, h, TRUE)

CountOf(S) == Cardinality(S)

\* the loop of unit with header h and footer c, seen from the event at p
DoLoopAt(p, ev, u, h, c) ==
    /\ (ev.e = "line" /\ IsPreTest(u, h) /\ HasNext(p)) => IsTestOf(p + 1, ev.unit, h)
    /\ (ev.e = "line" /\ IsPostTest(u, h) /\ HasNext(p) /\ h + 1 < c)
          => trace[p + 1] = LineEvent(ev.unit, h + 1)
    /\ (ev.e = "test" /\ ev.v /\ HasNext(p) /\ h + 1 < c) => trace[p + 1] = LineEvent(ev.unit, h + 1)
    /\ (ev.e = "test" /\ ~ev.v /\ HasNext(p)) => ~InBody(p + 1, ev.unit, h, c)
    /\ (ev.e = "line" /\ call.state = "returned" /\ h + 1 < c) =>
          CountOf({q \in 1..Len(trace) : trace[q] = LineEvent(ev.unit, h + 1)})
            = CountOf({q \in 1..Len(trace) : IsTestOf(q, ev.unit, h) /\ trace[q].v})
              + (IF IsPostTest(u, h)
                 THEN CountOf({q \in 1..Len(trace) : trace[q] = LineEvent(ev.unit, h)})
                 ELSE 0)

\* a pass of a loop ends at the evaluation of its condition: an event of the
\* body (h, c) is followed by an event of the body or by the test of h
BodyLeftByTest(p, ev, u) ==
    \A h \in 0..(ev.i - 1) :
        (IsDoHeader(u[h + 1]) /\ ClosingLoop(u, h) # -1 /\ ev.i < ClosingLoop(u, h) /\ HasNext(p))
            => (InBody(p + 1, ev.unit, h, ClosingLoop(u, h)) \/ IsTestOf(p + 1, ev.unit, h))

DoLoopIn(p, ev, u) ==
    /\ (IsDoHeader(u[ev.i + 1]) /\ ClosingLoop(u, ev.i) # -1)
          => DoLoopAt(p, ev, u, ev.i, ClosingLoop(u, ev.i))
    /\ BodyLeftByTest(p, ev, u)

\* C6: for every Do loop with a matching Loop footer: the dispatch of a
\* `Do While` header is followed by the evaluation of its condition, before
\* any line of the body; the dispatch of a plain `Do` header is followed by
\* the first line of the body, before any evaluation; a condition evaluated
\* to true is followed by the first line of the body and one evaluated to
\* false by no line of the body; a pass ends at the evaluation of the
\* condition; and when the call has returned the body has been entered once
\* for every true evaluation, and once more for every entry of a post-test
\* loop (so zero times for `Do While false`, once for `Loop While false`)
DoLoopsTestBeforeOrAfter ==
    \A p \in 1..Len(trace) :
        DoLoopIn(p, trace[p], UpperLines(UnitLines(trace[p].unit)))

\* a call has returned after a post-test loop whose condition was false at
\* its first evaluation: header, the line of the body, the evaluation
PostTestRanOnce ==
    /\ call.state = "returned"
    /\ \E p \in 1..(Len(trace) - 2) :
          /\ trace[p].e = "line"
          /\ IsPostTest(UpperLines(UnitLines(trace[p].unit)), trace[p].i)
          /\ trace[p + 1] = LineEvent(trace[p].unit, trace[p].i + 1)
          /\ trace[p + 2] = TestEvent(trace[p].unit, trace[p].i, FALSE)

(***************************************************************************)
(* C8 and C7.  The result of one binary operation.                         *)
(***************************************************************************)

\* the number a literal of Literals denotes, as numerator and denominator
LiteralValue(x) ==
    CASE x = "0" -> [n |-> 0, d |-> 1]
      [] x = "2" -> [n |-> 2, d |-> 1]
      [] x = "3" -> [n |-> 3, d |-> 1]
      [] x = "4" -> [n |-> 4, d |-> 1]
      [] x = "5" -> [n |-> 5, d |-> 1]
      [] x = "0.5" -> [n |-> 1, d |-> 2]
      [] x = "3.5" -> [n |-> 7, d |-> 2]

\* a op b as a fraction that is not reduced; the denominator is positive
Exact(op, a, b) ==
    CASE op = "+" -> [n |-> a.n * b.d + b.n * a.d, d |-> a.d * b.d]
      [] op = "-" -> [n |-> a.n * b.d - b.n * a.d, d |-> a.d * b.d]
      [] op = "*" -> [n |-> a.n * b.n, d |-> a.d * b.d]
      [] op = "/" -> [n |-> a.n * b.d, d |-> a.d * b.n]

\* v is the number r, tagged Integer exactly when r has no fractional part
IsNormalized(v, r) ==
    IF r.n % r.d = 0
    THEN v = IntV(r.n \div r.d)
    ELSE v.t = "float" /\ v.n * r.d = r.n * v.d

\* C8: for numeric literals a and b and an operator of + - * /, b not zero
\* for /, eval_expr of `a op b` returns the result of the operation: an
\* Integer when the result has no fractional part, a Float otherwise
ResultIsNormalized ==
    \A x \in Literals, op \in Operators, y \in Literals :
        (call.kind = "expr" /\ call.name = BinaryText(x, op, y) /\ ~(op = "/" /\ y = "0"))
            => /\ call.state = "returned"
               /\ IsNormalized(call.ret, Exact(op, LiteralValue(x), LiteralValue(y)))

\* 3.5+0.5 has been evaluated to the Integer 4
FractionCollapsed ==
    /\ call.kind = "expr" /\ call.name = Chars("3.5+0.5")
    /\ call.state = "returned" /\ call.ret = IntV(4)

\* C7 as stated: a / 0 returns the Float 0.0
DivisionByZeroIsFloatZero ==
    \A x \in Literals :
        (call.kind = "expr" /\ call.name = BinaryText(x, "/", "0"))
            => call.state = "returned" /\ call.ret = FloatV(0, 1)

\* C7: a / 0 does not fail; it returns the Integer 0, the 0.0 of the
\* division made safe being a Float without a fractional part
DivisionByZeroIsIntegerZero ==
    \A x \in Literals :
        (call.kind = "expr" /\ call.name = BinaryText(x, "/", "0"))
            => call.state = "returned" /\ call.ret = IntV(0)

\* 5/0 has been evaluated
DividedByZero ==
    call.kind = "expr" /\ call.name = Chars("5/0") /\ call.state = "returned"

(***************************************************************************)
(* C4.  Concatenation of quoted literals.                                  *)
(***************************************************************************)

\* C4 as stated: "x" & "y" evaluates to the contents x and y joined
QuotedLiteralsAreJoined ==
    \A x \in Contents, y \in Contents :
        (call.kind = "expr" /\ call.name = ConcatLiterals(x, y))
            => call.state = "returned" /\ call.ret = StrV(Chars(x) \o Chars(y))

(***************************************************************************)
(* C3.  The path accessor.                                                 *)
(***************************************************************************)

IsSet(p) == trace[p].e = "set"
IsGet(p) == trace[p].e = "get"

\* the path has key tokens only
KeysOnly(path) == ~Contains(path, <<"[">>)

\* C3 as stated: json_set of "a.b[0].c" on the empty mapping succeeds
IndexedPathIsCreated ==
    (trace # <<>> /\ IsSet(1) /\ trace[1].path = Chars("a.b[0].c")) => trace[1].exc = ""

\* C3: whenever json_set returns normally, json_get of the same path on the
\* same tree returns the value set; on the empty mapping json_set succeeds
\* for a path of keys, creating the mappings on the way, and raises
\* TypeError for "a.b[0].c", whose index token meets the mapping it has just
\* created for b
SetThenGetReturnsValue ==
    /\ \A p \in 1..(Len(trace) - 1) :
          (IsSet(p) /\ trace[p].exc = "" /\ IsGet(p + 1) /\ trace[p + 1].path = trace[p].path)
              => trace[p + 1].exc = "" /\ trace[p + 1].ret = trace[p].value
    /\ (trace # <<>> /\ IsSet(1) /\ KeysOnly(trace[1].path)) => trace[1].exc = ""
    /\ (trace # <<>> /\ IsSet(1) /\ trace[1].path = Chars("a.b[0].c"))
          => trace[1].exc = "TypeError"

\* a value has been set through an index token and read back
IndexedRoundTrip ==
    \E p \in 1..(Len(trace) - 1) :
        /\ IsSet(p) /\ trace[p].exc = "" /\ trace[p].path = Chars("l[0]")
        /\ IsGet(p + 1) /\ trace[p + 1].path = Chars("l[0]")

(***************************************************************************)
(* C2, C9, C10.  Calls of the host.                                        *)
(***************************************************************************)

\* C2 as stated: call_sub never raises
CallSubNeverRaises == call.kind = "sub" => call.state # "raised"

\* C9 as stated: F() in an expression evaluates to the value the body of the
\* Function F assigned to F: after UseF, whose first line is m = F() & "!",
\* m is hi!
FunctionCallYieldsReturnValue ==
    (/\ call.kind = "sub" /\ call.name = Chars("UseF") /\ call.state = "returned"
     /\ trace # <<>> /\ MapHas(functions, Chars("F")))
        => get_var(ctx, Chars("m")) = StrV(Chars("hi!"))

\* C10 as stated: call_sub of a name that differs from the name of a loaded
\* Sub in letter case only runs the body of that Sub: the call enters
\* run_lines
NamesMatchInAnyCase ==
    [][(/\ calls' = calls + 1 /\ call'.kind = "sub"
        /\ \E k \in 1..Len(procedures) :
              Upper(procedures[k][1]) = Upper(call'.name) /\ procedures[k][2] # <<>>)
           => stack' # <<>>]_vars

(***************************************************************************)
(* C11, C12.  Functions called by the host.                                *)
(***************************************************************************)

\* the step ends a call of call_function
FunctionCallEnds == call' # call /\ call'.kind = "function" /\ call'.state = "returned"

\* C11 as stated: call_function of a Function the loaded source defines
\* returns the value its slot of the Context holds after the call
FunctionReturnsItsSlot ==
    [][(FunctionCallEnds /\ MapHas(functions, call'.name))
          => call'.ret = get_var(ctx', call'.name)]_vars

\* the step is a call of the host
HostCalls(kind) == calls' = calls + 1 /\ call'.kind = kind

\* what call_function reports for a name it does not find
NotFound(name) == [k |-> "print", text |-> Chars("[VB] Function ") \o name \o Chars(" not found")]

\* C12: call_sub of a name that is not a defined Sub returns at once, runs
\* no line and leaves the Context, the trees and the output unchanged;
\* call_function of a name that is not a defined Function returns null
\* without raising, reports the name, runs no line and leaves the Context
\* and the trees unchanged
UnknownNamesFailSoft ==
    [][/\ (HostCalls("sub") /\ ~MapHas(procedures, call'.name))
            => /\ call'.state = "returned" /\ call'.exc = ""
               /\ stack' = <<>> /\ trace' = <<>>
               /\ ctx' = ctx /\ heap' = heap /\ out' = out
       /\ (HostCalls("function") /\ ~MapHas(functions, call'.name))
            => /\ call'.state = "returned" /\ call'.exc = "" /\ call'.ret = None
               /\ stack' = <<>> /\ trace' = <<>>
               /\ ctx' = ctx /\ heap' = heap
               /\ out' = Append(out, NotFound(call'.name))]_vars

\* call_function of an unknown name has returned, with a source loaded and
\* a variable bound
UnknownFunctionCalled ==
    /\ call.kind = "function" /\ call.name = Chars("Missing") /\ call.state = "returned"
    /\ functions # <<>> /\ ctx # <<>>
    /\ out # <<>> /\ out[Len(out)] = NotFound(Chars("Missing"))

(***************************************************************************)
(* C13, C14.  Comparisons.                                                 *)
(***************************************************************************)

\* the number a text of NumberTexts denotes, as numerator and denominator
NumberValue(x) ==
    CASE x = "10" -> [n |-> 10, d |-> 1]
      [] x = "9" -> [n |-> 9, d |-> 1]
      [] x = "9.5" -> [n |-> 19, d |-> 2]

\* the place of a content in the order of strings: "10" < "9" < "9.5" < "ab" < "b"
StringRank(x) ==
    CASE x = "10" -> 1 [] x = "9" -> 2 [] x = "9.5" -> 3 [] x = "ab" -> 4 [] x = "b" -> 5

\* x op y on integers
Holds(op, x, y) ==
    CASE op = "=" -> x = y
      [] op = "<>" -> x # y
      [] op = "<=" -> x <= y
      [] op = ">=" -> x >= y
      [] op = "<" -> x < y
      [] op = ">" -> x > y

\* a op b on the numbers a and b
NumbersHold(op, a, b) == Holds(op, a.n * b.d, b.n * a.d)

\* what l op r is to yield: the relation of the numbers when both sides are
\* numbers or numeric strings; otherwise the relation of the native values,
\* which for two strings is that of the order of strings, and for a string
\* and a number is unequal, with no order (the comparison fails and yields
\* false)
Compared(l, op, r) ==
    IF l[2] \in NumberTexts /\ r[2] \in NumberTexts
    THEN NumbersHold(op, NumberValue(l[2]), NumberValue(r[2]))
    ELSE IF l[1] /\ r[1] THEN Holds(op, StringRank(l[2]), StringRank(r[2]))
    ELSE op = "<>"

\* C13: _eval_condition of `l op r`, for operands that are numbers, quoted
\* numbers or quoted words, compares the numeric values when both sides can
\* be read as numbers (so "10" > "9" is true) and the native values when a
\* side cannot
NumericSidesCompareAsNumbers ==
    \A l \in Operands, op \in Relations, r \in Operands :
        (call.kind = "cond" /\ call.name = SpacedText(l, op, r))
            => call.state = "returned" /\ call.ret = BoolV(Compared(l, op, r))

\* "10" > "9" has been evaluated to true
QuotedNumbersCompared ==
    /\ call.kind = "cond" /\ call.name = Chars("\"10\" > \"9\"")
    /\ call.state = "returned" /\ call.ret = BoolV(TRUE)

\* C14: _eval_condition of `L op R`, for numbers L and R and each of the six
\* operators, written with or without spaces, applies op itself: <=, >= and
\* <> are not read as <, > or = with a character left over, and the
\* evaluation prints nothing
OperatorIsDetectedWhole ==
    [][\A l \in NumberTexts, op \in Relations, r \in NumberTexts :
          (/\ calls' = calls + 1 /\ call'.kind = "cond"
           /\ call'.name \in {SpacedText(<<FALSE, l>>, op, <<FALSE, r>>),
                              TightText(<<FALSE, l>>, op, <<FALSE, r>>)})
              => /\ call'.state = "returned"
                 /\ call'.ret = BoolV(NumbersHold(op, NumberValue(l), NumberValue(r)))
                 /\ out' = out]_vars

\* 9<=9 has been evaluated to true
TwoCharacterOperatorSeen ==
    /\ call.kind = "cond" /\ call.name = Chars("9<=9")
    /\ call.state = "returned" /\ call.ret = BoolV(TRUE)

(***************************************************************************)
(* C15, C16.  The scenarios of Sub Demo and of the While loop.             *)
(***************************************************************************)

\* the call of the Sub of this name has run lines and returned
SubReturned(name) ==
    call.kind = "sub" /\ call.name = Chars(name) /\ call.state = "returned" /\ trace # <<>>

\* C15: with the Sub Demo of the scenario loaded and x unbound, call_sub of
\* Demo returns with y equal to the string other: the condition x = 1 is
\* false, the Else-range is run and the Then-range is not
DemoLeavesOther ==
    (SubReturned("Demo") /\ ~has_var(ctx, Chars("x")))
        => /\ get_var(ctx, Chars("y")) = StrV(Chars("other"))
           /\ \A p \in 1..Len(trace) : trace[p].e = "if" => ~trace[p].v
           /\ \A p \in 1..Len(trace) : trace[p] # LineEvent(<<"sub", Chars("Demo")>>, 1)

\* Demo has returned after running the line of its Else-range, x unbound
DemoRanElse ==
    /\ SubReturned("Demo") /\ ~has_var(ctx, Chars("x"))
    /\ \E p \in 1..Len(trace) : trace[p] = LineEvent(<<"sub", Chars("Demo")>>, 3)

\* the step ends the call of the Sub of this name
SubEnds(name) ==
    /\ call.state = "running" /\ call'.state = "returned"
    /\ call'.kind = "sub" /\ call'.name = Chars(name)

\* the passes of the While loop of Count3 and CountN (header at line 2, body
\* at line 3), and the evaluations of its condition
CountPasses(name) == {p \in 1..Len(trace) : trace[p] = LineEvent(<<"sub", Chars(name)>>, 3)}
CountTests(name) ==
    {p \in 1..Len(trace) : trace[p].e = "test" /\ trace[p].unit = <<"sub", Chars(name)>>}

\* the loop has counted to k: i is the Integer k after k passes, each pass
\* coming right after an evaluation of the condition to true, and one more
\* evaluation, to false, ending the loop
CountedTo(name, k) ==
    /\ get_var(ctx, Chars("i")) = IntV(k)
    /\ Cardinality(CountPasses(name)) = k
    /\ Cardinality(CountTests(name)) = k + 1
    /\ \A p \in CountPasses(name) : trace[p - 1].e = "test" /\ trace[p - 1].v
    /\ trace[Len(trace)].e = "test" /\ ~trace[Len(trace)].v

\* a call of Count3 or CountN is in progress
Counting ==
    call.kind = "sub" /\ call.name \in {Chars("Count3"), Chars("CountN")} /\ call.state = "running"

\* the bound of CountN is an Integer
CountBound == get_var(ctx, Chars("n"))

\* the call in progress can take a step: it has an activation, and the run
\* is not cut off.  run_lines at a line dispatches it, run_lines past its
\* end returns, a loop evaluates its condition, a call returns
CanGoOn == stack # <<>> /\ Len(trace) < MaxSteps

\* the step brings the call nearer to its end: it dispatches a line or
\* evaluates a condition, of which the run has a bounded number, or it
\* returns from an activation
GoesOn == Len(trace') > Len(trace) \/ (trace' = trace /\ Len(stack') < Len(stack))

\* C16: the call of Count3 (Dim i, i = 0, While i < 3, i = i + 1, Wend)
\* ends after exactly 3 passes with i the Integer 3; the call of CountN
\* (the same with While i < n) with n bound to an Integer k >= 0 ends after
\* exactly k passes with i = k, none when k = 0; the condition is evaluated
\* before every pass.  The call ends: while it is in progress a step can be
\* taken, and every step brings it nearer to its end
WhileCountsUp ==
    /\ [][/\ SubEnds("Count3") => CountedTo("Count3", 3)
          /\ (SubEnds("CountN") /\ CountBound.t = "int") => CountedTo("CountN", CountBound.i)
          /\ (Counting /\ (call.name = Chars("CountN") => CountBound.t = "int")) => GoesOn]_vars
    /\ [](Counting => CanGoOn)

\* Count3 has returned with i = 3
CountedToThree == SubReturned("Count3") /\ get_var(ctx, Chars("i")) = IntV(3)

\* the step is a call of _call_function of the reports form
StatsCallMade == calls' = calls + 1 /\ call'.kind = "stats"

\* what the call has done, as the base class reports its outcomes
StatsOutcome == [st |-> MkState(ctx', heap', out'), v |-> call'.ret, exc |-> call'.exc]

\* the name is one of the two of the reports form, in any letter case
IsStatsName(name) == Upper(name) \in {Chars("STATSPREPARE"), Chars("STATSGET")}

\* the name is a built-in of the base class
IsBuiltinName(name) ==
    Upper(name) \in {Chars("JSONNEW"), Chars("JSONPARSE"), Chars("JSONSTRINGIFY"), Chars("JSONGET")}

\* C17: StatsVBInterpreter._call_function resolves StatsPrepare and StatsGet,
\* in any letter case, before anything else: no diagnostic is printed and
\* the result is the text of StatsPrepare or the number of StatsGet, or the
\* exception of the look-up in AppData.  For every other name the outcome is
\* exactly that of the base _call_function on the same state and arguments;
\* a name that is no built-in either prints the diagnostic of the base class
\* and yields None, and changes nothing else
StatsExtendsBase ==
    [][StatsCallMade =>
        /\ IsStatsName(call'.name) =>
              /\ out' = out /\ ctx' = ctx /\ heap' = heap
              /\ \/ call'.exc \in {"AttributeError", "TypeError"}
                 \/ call'.exc = "" /\ call'.ret.t = (IF Upper(call'.name) = Chars("STATSGET")
                                                    THEN "float" ELSE "str")
        /\ ~IsStatsName(call'.name) =>
              StatsOutcome = BuiltinCall(St, Upper(call'.name), trace'[1].args)
        /\ (~IsStatsName(call'.name) /\ ~IsBuiltinName(call'.name)) =>
              /\ out' = Append(out, [k |-> "print", text |-> Chars("Unknown function in expression")])
              /\ call'.state = "returned" /\ call'.ret = None
              /\ ctx' = ctx /\ heap' = heap]_vars

\* a name that nothing defines has been called: reported, and None returned
StatsFellBack ==
    /\ call.kind = "stats" /\ call.name = Chars("StatsGets") /\ call.ret = None
    /\ out = <<[k |-> "print", text |-> Chars("Unknown function in expression")]>>
    /\ get_var(ctx, Chars("AppData")) = RefV(1)

\* the passes of the body of the Do loop of Until and of Bare (header at
\* line 0, body at line 1)
FooterPasses(name) == {p \in 1..Len(trace) : trace[p] = LineEvent(<<"sub", Chars(name)>>, 1)}

\* the footer of the loop has been reported
FooterReported ==
    \E k \in 1..Len(out) :
        out[k] = [k |-> "print", text |-> Chars("[VB] Only 'Loop While <cond>' supported (post-test)")]

\* C18: a Do ... Loop block whose footer is not Loop While <cond> (Loop
\* Until c, a bare Loop) is reported and executes its body exactly once,
\* whatever variables are bound: the body is never entered a second time,
\* and the call that has returned has made one pass
OtherFooterRunsOnce ==
    \A name \in {"Until", "Bare"} :
        /\ Cardinality(FooterPasses(name)) <= 1
        /\ FooterPasses(name) # {} => FooterReported
        /\ SubReturned(name) => Cardinality(FooterPasses(name)) = 1

\* C19: a line is a block header or footer only when it begins with the
\* keyword: Done = 1 in the body of Flag, and LoopCount = 1 in the Do body
\* of Counter, are executed as plain assignments, so that the call that has
\* returned leaves Done (and the z that follows it), and LoopCount, bound
\* to 1
KeywordPrefixIsStatement ==
    /\ SubReturned("Flag") =>
          /\ get_var(ctx, Chars("Done")) = IntV(1)
          /\ get_var(ctx, Chars("z")) = IntV(1)
    /\ SubReturned("Counter") => get_var(ctx, Chars("LoopCount")) = IntV(1)

\* run_lines is at an If header that no End If closes before the end of the
\* range
AtUnclosedIf ==
    /\ AtLine /\ IsIfHeader(CurUpper)
    /\ ClosingEndIf(UpperLines(Top.lines), Top.i, Top.end) = -1

\* the events of the call of Broken (x = 1 at line 0, the If header at
\* line 1, then y = 1 and z = 1, and no End If)
BrokenEvents == {p \in 1..Len(trace) : trace[p].unit = <<"sub", Chars("Broken")>>}

\* C20: an If header with no matching End If before the end of the range
\* prints the diagnostic and nothing else, does not evaluate its condition
\* and executes no line of either range: the Context and the heap are as
\* before, run_lines goes on at the end of the range and nothing is raised.
\* In Broken only the lines 0 and 1 are dispatched
UnclosedIfIsSkipped ==
    /\ [][AtUnclosedIf =>
            /\ out' = Append(out, [k |-> "print", text |-> Chars("[VB] Warning: unmatched If/End If")])
            /\ ctx' = ctx /\ heap' = heap
            /\ call' = call
            /\ stack' = Advance(stack, Top.end)
            /\ trace' = Append(trace, LineEvent(Top.unit, Top.i))]_vars
    /\ [](\A p \in BrokenEvents : trace[p].e = "line" /\ trace[p].i \in {0, 1})

\* Broken has returned with a bound: x is set, y and z are not, and the
\* diagnostic is the only output
BrokenReturned ==
    /\ SubReturned("Broken")
    /\ ctx = << <<Chars("a"), IntV(1)>>, <<Chars("x"), IntV(1)>> >>
    /\ out = <<[k |-> "print", text |-> Chars("[VB] Warning: unmatched If/End If")]>>

\* the names bound in a Context
BoundNames(c) == {c[k][1] : k \in 1..Len(c)}

\* C21: Dim a, b, ... binds to None exactly the listed names that are not
\* bound, and leaves every bound name with its value: the Context after the
\* statement is the Context before with the new names added, no name is
\* reset, and nothing else changes
DimBindsOnlyUnbound ==
    [][\A d \in Decls :
          (calls' = calls + 1 /\ call'.kind = "line" /\ call'.name = Chars(d[1]))
             => /\ call'.state = "returned"
                /\ BoundNames(ctx') = BoundNames(ctx) \cup {Chars(n) : n \in d[2]}
                /\ \A x \in BoundNames(ctx) : get_var(ctx', x) = get_var(ctx, x)
                /\ \A x \in BoundNames(ctx') \ BoundNames(ctx) : get_var(ctx', x) = None
                /\ heap' = heap /\ out' = out]_vars

\* Dim a, b has been executed with a bound to 1 and b unbound: a is still 1
\* and b is None
DimKeptAndBound ==
    /\ call.kind = "line" /\ call.name = Chars("Dim a, b") /\ call.state = "returned"
    /\ ctx = << <<Chars("a"), IntV(1)>>, <<Chars("b"), None>> >>

\* the logical lines of the physical lines from position k on, as the rules
\* give them: cont says that the line before ended with the marker, acc is
\* the text merged so far.  A blank line or a comment line is dropped when
\* cont is false and joined when it is true; a line that ends with the
\* marker goes on with the next one; a logical line that is empty or a
\* comment is not produced
RECURSIVE MergedFrom(_, _, _, _, _)
MergedFrom(raw, k, cont, acc, done) ==
    IF k > Len(raw) THEN (IF cont THEN KeepLine(done, Strip(acc)) ELSE done)
    ELSE IF ~cont /\ (Strip(raw[k]) = <<>> \/ StartsWith(LStrip(raw[k]), <<"'">>))
    THEN MergedFrom(raw, k + 1, FALSE, <<>>, done)
    ELSE IF EndsWith(RStrip(raw[k]), <<"_">>)
    THEN MergedFrom(raw, k + 1, TRUE,
                    IF cont THEN acc \o <<" ">> \o RStrip(Mid(RStrip(raw[k]), 1, Len(RStrip(raw[k])) - 1))
                    ELSE RStrip(Mid(RStrip(raw[k]), 1, Len(RStrip(raw[k])) - 1)),
                    done)
    ELSE MergedFrom(raw, k + 1, FALSE, <<>>,
                    KeepLine(done, Strip(IF cont THEN acc \o <<" ">> \o raw[k] ELSE raw[k])))

\* C22: the normalizer merges a physical line that ends with _ with the
\* line that follows, with one space in between, until a line without the
\* marker; blank lines and comment lines are dropped outside a continuation
\* and joined inside one; the logical lines produced are trimmed and not
\* empty, and an inline comment stays
ContinuationsAreMerged ==
    call.kind = "normalize" =>
        /\ trace[1].lines = MergedFrom(splitlines(call.name), 1, FALSE, <<>>, <<>>)
        /\ \A k \in 1..Len(trace[1].lines) :
              trace[1].lines[k] # <<>> /\ Strip(trace[1].lines[k]) = trace[1].lines[k]

\* the lines of the Sub of this name that the call has dispatched, in order
LinesOf(name) ==
    SelectSeq(trace, LAMBDA ev : ev.e = "line" /\ ev.unit = <<"sub", Chars(name)>>)
IndexesOf(name) == Tup([k \in 1..Len(LinesOf(name)) |-> LinesOf(name)[k].i])

\* the positions in the trace of what a handler has done
InnerEvents(name) == {p \in 1..Len(trace) : trace[p].unit # <<"sub", Chars(name)>>}
PositionOf(name, i) == CHOOSE p \in 1..Len(trace) : trace[p] = LineEvent(<<"sub", Chars(name)>>, i)

\* the host method at position p of the activations is still in progress
\* after the step
StillInProgress(p) == p \in EventFrames(stack')

\* C23: when the method that statement k of a running Sub has called
\* re-enters call_sub, the run of the handler leaves the activations of the
\* outer body as they are (its cursor at k, its range and the ranges of the
\* blocks around it); when the host method returns, the outer body goes on
\* at statement k + 1, and the handler has run to its end unless it raised;
\* the call of the outer Sub does not end before.  The returned call has
\* dispatched each statement of the outer body once, in order, with the
\* statements of the handler between statement k and statement k + 1, and
\* the outer body reads what the handler wrote (b = n)
ReentryLeavesOuterRun ==
    /\ [][\A p \in EventFrames(stack) :
            /\ StillInProgress(p) =>
                  SubSeq(stack', 1, p - 1) = SubSeq(stack, 1, p - 1) /\ call' = call
            /\ ~StillInProgress(p) =>
                  /\ p = SetMax(EventFrames(stack))
                  /\ stack' = Advance(SubSeq(stack, 1, p - 1), stack[p - 1].i + 1)
                  /\ call' = call /\ ctx' = ctx /\ heap' = heap
                  /\ out' = out => Len(stack) = p]_vars
    /\ [](SubReturned("Outer") =>
            /\ IndexesOf("Outer") \in {<<0, 1, 2, 4>>, <<0, 4>>}
            /\ IndexesOf("Outer") = <<0, 1, 2, 4>> =>
                  \A p \in InnerEvents("Outer") :
                      PositionOf("Outer", 1) < p /\ p < PositionOf("Outer", 2))
    /\ [][(call.state = "running" /\ SubReturned("Outer")'
              /\ IndexesOf("Outer")' = <<0, 1, 2, 4>>)
            => get_var(ctx', Chars("b")) = get_var(ctx', Chars("n"))]_vars
    /\ [](SubReturned("Twice") => IndexesOf("Twice") = <<0, 1, 2>>)
    /\ [](SubReturned("Deep") =>
            /\ IndexesOf("Deep") = <<0, 1>>
            /\ LinesOf("top_Change") # <<>> => IndexesOf("top_Change") = <<0, 1>>)

\* Outer has returned after the handler counted n up to 2 while the list box
\* was cleared: b is 2
OuterReadInnerWrite ==
    /\ SubReturned("Outer")
    /\ get_var(ctx, Chars("b")) = IntV(2)
    /\ IndexesOf("lst_Change") = <<0, 1, 1, 3>>

(***************************************************************************)
(* The cursor that the block handlers return.                              *)
(***************************************************************************)

\* blocks of the three kinds, closed and not closed: a header on the last
\* line of the body, blocks inside blocks, loops that are not closed, a loop
\* that is not closed inside the range of an If, and a post-test loop
SrcBlocks ==
    "Sub IfLast()\nx = 1\nIf a = 1 Then\nEnd Sub\nSub Nested()\ni = 0\nWhile i < 1\nIf i = 0 Then\nDo While i = 0\ni = 1\nLoop\nEnd If\nWend\nz = 1\nEnd Sub\nSub OpenWhile()\nWhile a < 1\nx = 1\nEnd Sub\nSub OpenDoWhile()\nDo While a < 1\nx = 1\nEnd Sub\nSub OpenDo()\nx = 1\nDo\nEnd Sub\nSub InnerOpen()\nIf a = 1 Then\nWhile b < 1\nq = 1\nEnd If\nz = 1\nEnd Sub\nSub Post()\nk = 0\nDo\nk = k + 1\nLoop While k < 2\nz = 1\nEnd Sub\n"

BlockSubNames == {"IfLast", "Nested", "OpenWhile", "OpenDoWhile", "OpenDo", "InnerOpen", "Post"}

NextBlocks ==
    \/ LoadSource(Chars(SrcBlocks))
    \/ \E v \in {IntV(0), IntV(1)} : SetVar(Chars("a"), v)
    \/ \E f \in BlockSubNames : call_sub(Chars(f))
    \/ Running

SpecBlocks == Init /\ [][NextBlocks]_vars

\* the kind of block that run_lines takes the line for
HeaderKind(upper) ==
    IF IsIfHeader(upper) THEN "if" ELSE IF IsWhileHeader(upper) THEN "while" ELSE "do"

\* the line at index h of lines is a header, a footer, of this kind of block
Opens(kind, lines, h) ==
    LET u == Upper(Strip(lines[h + 1]))
    IN  CASE kind = "if" -> IsIfHeader(u)
          [] kind = "while" -> IsWhileHeader(u)
          [] kind = "do" -> IsDoHeader(u)
Closes(kind, lines, h) ==
    LET u == Upper(Strip(lines[h + 1]))
    IN  CASE kind = "if" -> ~IsIfHeader(u) /\ u = Chars("END IF")
          [] kind = "while" -> ~IsWhileHeader(u) /\ u = Chars("WEND")
          [] kind = "do" -> ~IsDoHeader(u) /\ IsLoopFooter(u)

\* the blocks of this kind that are open after line g, the one of the header
\* at i included
OpenAfter(kind, lines, i, g) ==
    1 + Cardinality({h \in (i + 1)..g : Opens(kind, lines, h)})
      - Cardinality({h \in (i + 1)..g : Closes(kind, lines, h)})

\* the footers in the range that close the block of the header at i; the
\* block is well formed when there is one, and the first is the matched one
FootersOf(kind, lines, i, end) ==
    {g \in (i + 1)..(end - 1) : OpenAfter(kind, lines, i, g) = 0}
MatchedFooter(kind, lines, i, end) ==
    CHOOSE g \in FootersOf(kind, lines, i, end) :
        \A h \in FootersOf(kind, lines, i, end) : g <= h

\* run_lines is at the header of a block
AtHeader == AtLine /\ ~AtStatement

\* the cursor c that the handler called at the header at i has returned is
\* within the range, and after the matched footer when there is one
ReturnsWithin(kind, lines, i, end, c) ==
    /\ i < c /\ c <= end
    /\ FootersOf(kind, lines, i, end) # {} => c = MatchedFooter(kind, lines, i, end) + 1

\* a call of a Sub of the blocks scenario is in progress
InBlocks ==
    call.kind = "sub" /\ call.state = "running" /\ \E f \in BlockSubNames : call.name = Chars(f)

\* C24: each of _exec_if_block, _exec_while_block and _exec_do_block,
\* called at a header at index i of a range that ends at end (i < end),
\* returns a cursor c with i < c <= end, and c is the index after the
\* matched footer when the block is well formed; the cursor of an
\* activation is not changed while the ranges of the block run above it; a
\* plain statement is dispatched once and moves the cursor by one, so the
\* statements after a block are run once each, after the block; and a call
\* of a body whose loops end goes on to its end: it can always take a step,
\* and each step dispatches a line, evaluates a condition or returns
CursorMakesProgress ==
    /\ [][/\ (AtHeader /\ stack' # <<>>) =>
                /\ Top.i < Top.end
                /\ ReturnsWithin(HeaderKind(CurUpper), Top.lines, Top.i, Top.end,
                                 stack'[Len(stack)].i)
          /\ \A p \in 1..(Len(stack) - 1) : stack' # <<>> => stack'[p] = stack[p]
          /\ (AtStatement /\ stack' # <<>>) =>
                /\ stack' = Advance(stack, Top.i + 1)
                /\ trace' = Append(trace, LineEvent(Top.unit, Top.i))
          /\ InBlocks => GoesOn]_vars
    /\ [](InBlocks => CanGoOn)
    /\ [](SubReturned("Nested") => IndexesOf("Nested") = <<0, 1, 2, 3, 4, 8>>)
    /\ [](SubReturned("Post") => IndexesOf("Post") = <<0, 1, 2, 2, 4>>)
    /\ [](SubReturned("InnerOpen") => IndexesOf("InnerOpen") \in {<<0, 4>>, <<0, 1, 4>>})
    /\ [](SubReturned("IfLast") => IndexesOf("IfLast") = <<0, 1>>)
    /\ [](SubReturned("OpenWhile") => IndexesOf("OpenWhile") = <<0>>)
    /\ [](SubReturned("OpenDoWhile") => IndexesOf("OpenDoWhile") = <<0>>)
    /\ [](SubReturned("OpenDo") => IndexesOf("OpenDo") = <<0, 1>>)

\* Nested has returned: the Do While block inside the If block inside the
\* While block has made its pass, and the statement after Wend has run
BlocksLeftInOrder ==
    /\ SubReturned("Nested")
    /\ get_var(ctx, Chars("i")) = IntV(1)
    /\ get_var(ctx, Chars("z")) = IntV(1)
    /\ IndexesOf("Nested") = <<0, 1, 2, 3, 4, 8>>

(***************************************************************************)
(* Dotted assignments executed on their own, and read back.                *)
(***************************************************************************)

\* the host binds a tree: ctx.set_var(name, VBJsonRuntime.json_new(type_name))
TreeBound(name, r) == heap' = r.h /\ ctx' = set_var(ctx, name, r.v)
BindTree(name, type_name) ==
    /\ Idle /\ sets < MaxSets
    /\ TreeBound(name, json_new(heap, type_name))
    /\ sets' = sets + 1
    /\ UNCHANGED <<procedures, functions, out, stack, call, trace, loads, calls>>

\* the dotted assignments executed: the statement, its left side, its right
\* side
DotLines == {<<"v.k = 1", "v.k", "1">>, <<"v.name = \"s\"", "v.name", "\"s\"">>,
             <<"v.items = 1", "v.items", "1">>, <<"v.get = 2", "v.get", "2">>,
             <<"w.keys = v.age", "w.keys", "v.age">>, <<"w.values = \"x\"", "w.values", "\"x\"">>,
             <<"w.n = v.age", "w.n", "v.age">>}

NextDot ==
    \/ \E n \in {"v", "w"}, s \in {"Customer", "Nothing"} : BindTree(Chars(n), Chars(s))
    \/ \E n \in {"v", "w"}, x \in {IntV(1), None} : SetVar(Chars(n), x)
    \/ \E d \in DotLines : ExecLine(Chars(d[1]))

SpecDot == Init /\ [][NextDot]_vars

\* the variable of the left side is unbound (or bound to None, which assign
\* treats alike) or bound to a mapping
TargetOf(left) == get_var(ctx, Strip(SplitOnce(Chars(left), ".")[1]))
AssignsIntoMapping(d) == IsNone(TargetOf(d[2])) \/ IsDict(heap, TargetOf(d[2]))

\* C25: the statement v.k = e, with v unbound or bound to a mapping,
\* returns, and the atom v.k evaluated after it yields the value e had, for
\* every key name k, the names of the operations of a mapping included
DottedAssignmentReadsBack ==
    [][\A d \in DotLines :
          (calls' = calls + 1 /\ call'.kind = "line" /\ call'.name = Chars(d[1])
             /\ AssignsIntoMapping(d))
          => /\ call'.state = "returned"
             /\ eval_atom(MkState(ctx', heap', out'), Chars(d[2])).v = eval_expr(St, Chars(d[3])).v]_vars

\* the step is a call of json_set that has raised a TypeError
JsonSetTypeError ==
    /\ sets' = sets + 1
    /\ Len(trace') = Len(trace) + 1
    /\ trace'[Len(trace')].e = "set"
    /\ trace'[Len(trace')].exc = "TypeError"

\* C26: a call of json_set that fails with a type error leaves the tree as
\* it was: no mapping created for an earlier segment of the path remains,
\* and no null intermediate has been replaced
JsonSetFailsWhole == [][JsonSetTypeError => heap' = heap]_vars

(***************************************************************************)
(* Trees made by json_new, written with json_set.                          *)
(***************************************************************************)

\* the host has bound AppData to a new Root tree:
\* ctx.set_var("AppData", VBJsonRuntime.json_new("Root"))
InitNew ==
    /\ procedures = <<>>
    /\ functions = <<>>
    /\ ctx = set_var(<<>>, Chars("AppData"), json_new(SchemaHeap, Chars("Root")).v)
    /\ heap = json_new(SchemaHeap, Chars("Root")).h
    /\ out = <<>>
    /\ stack = <<>>
    /\ call = NoCall
    /\ trace = <<>>
    /\ loads = 0
    /\ calls = 0
    /\ sets = 0

\* the host calls VBJsonRuntime.json_set(tree, path, value) on the tree
\* bound to name
TreeSet(name, path, value) ==
    /\ Idle /\ sets < MaxSets
    /\ sets' = sets + 1
    /\ JsonSetReturned(path, value, json_set(heap, get_var(ctx, name), path, value))
    /\ UNCHANGED <<procedures, functions, ctx, out, stack, call, loads, calls>>

TreeNames == {"AppData", "b", "c"}
SchemaNames == {"Root", "Customer", "Nothing"}
TreePaths == {"meta.nextJournalId", "name", "ledger.journals", "x.y"}

\* the values written: two scalars, and the trees bound at the time
TreeValues == {IntV(7), StrV(Chars("z"))} \cup {get_var(ctx, Chars(n)) : n \in {"AppData", "b"}}

NextNew ==
    \/ \E n \in {"b", "c"}, s \in SchemaNames : BindTree(Chars(n), Chars(s))
    \/ \E n \in {"AppData", "b"}, p \in TreePaths, v \in TreeValues :
          TreeSet(Chars(n), Chars(p), v)

SpecNew == InitNew /\ [][NextNew]_vars

\* the nodes a node refers to, and the nodes of the tree of a value
Children(node) ==
    IF node.k = "dict"
    THEN {node.items[k][2].id : k \in {j \in 1..Len(node.items) : node.items[j][2].t = "ref"}}
    ELSE IF node.k = "list"
    THEN {node.elems[k].id : k \in {j \in 1..Len(node.elems) : node.elems[j].t = "ref"}}
    ELSE {}
RECURSIVE ReachFrom(_, _, _)
ReachFrom(h, todo, seen) ==
    IF todo = {} THEN seen
    ELSE LET id == CHOOSE x \in todo : TRUE
         IN  ReachFrom(h, (todo \cup Children(h[id])) \ (seen \cup {id}), seen \cup {id})
NodesOf(h, v) == IF v.t = "ref" THEN ReachFrom(h, {v.id}, {}) ELSE {}

\* the nodes of the templates of SCHEMAS
TemplateNodes == 1..Len(SchemaHeap)

\* the trees bound in the Context: each comes from a call of json_new of its
\* own
BoundTrees == {n \in TreeNames : get_var(ctx, Chars(n)).t = "ref"}

\* no two trees of the Context have a node in common, and none has a node
\* of a template
TreesAreApart ==
    \A n \in BoundTrees :
        /\ NodesOf(heap, get_var(ctx, Chars(n))) \cap TemplateNodes = {}
        /\ \A m \in BoundTrees \ {n} :
               NodesOf(heap, get_var(ctx, Chars(n))) \cap NodesOf(heap, get_var(ctx, Chars(m))) = {}

\* no json_set so far has stored a tree or a node of one as its value
OnlyScalarsStored == \A p \in 1..Len(trace) : trace[p].value.t # "ref"

\* the step is json_new(s) bound to n
NewTreeBound(n, s) ==
    /\ sets' = sets + 1 /\ trace' = trace
    /\ ctx' = set_var(ctx, Chars(n), RefV(Len(heap) + 1))

\* the text of the template of s as json.dumps gives it: the shape the
\* module SCHEMAS had when it was imported
TemplateText(s) ==
    IF MapHas(SCHEMAS, Chars(s)) THEN json_stringify(SchemaHeap, MapGet(SCHEMAS, Chars(s)))
    ELSE json_stringify(<<DictNode(<<>>)>>, RefV(1))

\* the step is json_set on the tree bound to n
TreeWritten(n) ==
    /\ sets' = sets + 1 /\ Len(trace') = Len(trace) + 1 /\ ctx' = ctx
    /\ \E p \in TreePaths, v \in TreeValues :
          /\ trace'[Len(trace')].path = Chars(p) /\ trace'[Len(trace')].value = v
          /\ heap' = json_set(heap, get_var(ctx, Chars(n)), Chars(p), v).h

\* the original statement of C27: whatever json_set has stored, no two trees
\* share a node, and a json_set on one tree leaves every other tree as it was
TreesNeverShare ==
    /\ [][\A n \in {"AppData", "b"} : TreeWritten(n) =>
            \A m \in BoundTrees \ {n} :
                \A id \in NodesOf(heap, get_var(ctx, Chars(m))) : heap'[id] = heap[id]]_vars
    /\ []TreesAreApart

\* C27: the templates of SCHEMAS are never changed; json_new of a schema
\* name returns a tree with the shape of the template as it was at the
\* start, whatever json_set has done before, and an empty mapping for a
\* name that is no schema; as long as json_set has stored only scalars, no
\* two trees of separate json_new calls share a node, nor a node with a
\* template, and a json_set on one tree changes no node of another (so
\* json_get on the other returns what it returned before).  json_set stores
\* its value by reference: a tree stored in another tree is shared
JsonNewIsIndependent ==
    /\ [](SubSeq(heap, 1, Len(SchemaHeap)) = SchemaHeap)
    /\ [][\A n \in {"b", "c"}, s \in SchemaNames :
            (NewTreeBound(n, s) /\ heap' = json_new(heap, Chars(s)).h)
            => /\ json_stringify(heap', get_var(ctx', Chars(n))) = TemplateText(s)
               /\ s = "Nothing" => heap'[Len(heap')] = DictNode(<<>>)
               /\ SubSeq(heap', 1, Len(heap)) = heap]_vars
    /\ [][\A n \in {"AppData", "b"} : (TreeWritten(n) /\ OnlyScalarsStored') =>
            \A m \in BoundTrees \ {n} :
                /\ \A id \in NodesOf(heap, get_var(ctx, Chars(m))) : heap'[id] = heap[id]
                /\ \A p \in TreePaths :
                      json_get(heap', get_var(ctx, Chars(m)), Chars(p))
                        = json_get(heap, get_var(ctx, Chars(m)), Chars(p))]_vars
    /\ [](OnlyScalarsStored => TreesAreApart)

\* a counter of AppData has been written, and a Root tree made afterwards
\* is bound to b: its counter is the 1 of the template
NewAfterWrite ==
    /\ trace # <<>> /\ trace[1].exc = "" /\ trace[1].path = Chars("meta.nextJournalId")
    /\ trace[1].value = IntV(7)
    /\ json_get(heap, get_var(ctx, Chars("AppData")), Chars("meta.nextJournalId")).v = IntV(7)
    /\ get_var(ctx, Chars("b")).t = "ref"
    /\ json_get(heap, get_var(ctx, Chars("b")), Chars("meta.nextJournalId")).v = IntV(1)

(***************************************************************************)
(* NewJournal and PostEntry on the Root tree bound to AppData.             *)
(***************************************************************************)

\* the most statements the host has executed
MaxOps == 3

LedgerEvent(line) == [e |-> "ledger", line |-> line]

\* the host executes an accounting statement: exec_line(line)
LedgerLine(line) ==
    /\ Idle /\ Len(trace) < MaxOps
    /\ LineExecuted(line, exec_line(St, line))
    /\ trace' = Append(trace, LedgerEvent(line))
    /\ UNCHANGED <<procedures, functions, stack, loads, calls, sets>>

\* journals with and without a period (the date is read from d: a date
\* written as a literal holds a "-", which eval_expr takes for a
\* subtraction), and a journal of the month m, for which create_journal
\* raises IndexError; postings to an account that exists
\* or not, with an asset type that exists or not, with empty codes (UNSPEC
\* and CUR stand for them), and with the id of a journal in j or k
JournalLines == {"j = NewJournal(d, \"rent\")", "k = NewJournal(\"x\", \"rent\", \"Q1\")",
                 "j = NewJournal(m, \"rent\")"}
PostingLines == {"PostEntry \"cash\", \"USD\", \"\", j, 5",
                 "PostEntry \"cash\", \"EUR\", \"2025-01\", j, \"2.5\"",
                 "PostEntry \"\", \"\", \"\", k, x",
                 "PostEntry \"bank\", \"\", \"p\", \"7\", 1.5"}

NextLedger ==
    \/ \E l \in JournalLines : LedgerLine(Chars(l))
    \/ \E l \in PostingLines : LedgerLine(Chars(l))

\* AppData is bound to a new Root tree, d to the text of a date and m to the
\* text of a month
InitLedger ==
    /\ procedures = <<>>
    /\ functions = <<>>
    /\ ctx = set_var(set_var(set_var(<<>>, Chars("AppData"),
                                     json_new(SchemaHeap, Chars("Root")).v),
                             Chars("d"), StrV(Chars("2025-01-15"))),
                     Chars("m"), StrV(Chars("2025-01")))
    /\ heap = json_new(SchemaHeap, Chars("Root")).h
    /\ out = <<>>
    /\ stack = <<>>
    /\ call = NoCall
    /\ trace = <<>>
    /\ loads = 0
    /\ calls = 0
    /\ sets = 0

SpecLedger == InitLedger /\ [][NextLedger]_vars

\* the rows of a list of the ledger of AppData, and the values they hold
\* under a key
AppData == get_var(ctx, Chars("AppData"))
LedgerRows(key) == heap[LedgerList(heap, AppData, key).id].elems
RowValues(key, field) ==
    Tup([k \in 1..Len(LedgerRows(key)) |-> DictGet(heap[LedgerRows(key)[k].id], Chars(field))])
Counter(key) == DictGet(heap[MetaOf(heap, AppData).id], Chars(key)).i

PairwiseDistinct(vals) == \A a, b \in 1..Len(vals) : a # b => vals[a] # vals[b]

\* C28: from a new Root tree bound to AppData, after any sequence of
\* NewJournal and PostEntry statements, the ids of the journals are pairwise
\* distinct and less than meta.nextJournalId, the ids of the postings are
\* pairwise distinct and less than meta.nextPostingSeq, the codes of the
\* accounts and the codes of the asset types are pairwise distinct, and the
\* accountId and assetTypeId of every posting are ids of an account and of
\* an asset type of the ledger
LedgerIdsAreUnique ==
    /\ PairwiseDistinct(RowValues("journals", "id"))
    /\ \A v \in Range(RowValues("journals", "id")) : v.i < Counter("nextJournalId")
    /\ PairwiseDistinct(RowValues("postings", "id"))
    /\ \A v \in Range(RowValues("postings", "id")) : v.i < Counter("nextPostingSeq")
    /\ PairwiseDistinct(RowValues("accounts", "code"))
    /\ PairwiseDistinct(RowValues("assetTypes", "code"))
    /\ \A v \in Range(RowValues("postings", "accountId")) :
          v \in Range(RowValues("accounts", "id"))
    /\ \A v \in Range(RowValues("postings", "assetTypeId")) :
          v \in Range(RowValues("assetTypes", "id"))

\* a journal and two postings to the account cash, in two asset types: the
\* second posting has found the account of the first
AccountFoundAgain ==
    /\ Len(trace) = 3
    /\ Len(LedgerRows("journals")) = 1
    /\ Len(LedgerRows("postings")) = 2
    /\ RowValues("accounts", "code") = <<StrV(Chars("cash"))>>
    /\ Len(LedgerRows("assetTypes")) = 2
    /\ RowValues("postings", "journalId") = <<IntV(1), IntV(1)>>


====
